---- MODULE Spec2Model ----
(***************************************************************************)
(* Path extrapolation of image-explorer: the vector algebra of vector.ts   *)
(* and the four strategies of path-extrapolator.ts (last, momentum,        *)
(* centroid, pca), one extrapolate call per behaviour.                     *)
(*                                                                         *)
(* Numbers.  A JavaScript number is modelled by an exact real of the form  *)
(* (n/d) * sqrt(r): a record [n, d, r] with n/d a reduced fraction, d > 0  *)
(* and r a square-free positive integer (r = 1 for a rational).  Sums,     *)
(* products, quotients and the square roots the strategies take of         *)
(* rational inputs stay in this form, so normalize is computed, not        *)
(* assumed.  NaN is the value JavaScript gives arithmetic on a missing     *)
(* array element.  Floating-point rounding is not modelled, except in the  *)
(* section on rounded arithmetic, which repeats the centroid in binary     *)
(* floating point of SignificandBits bits.                                 *)
(***************************************************************************)
EXTENDS Integers, Sequences, FiniteSets, TLC

\* ------------------------------------------------------------------ bounds
\* longest path handed to extrapolate
MaxLen == 3

\* the calls made on one shared instance, by all its callers together
MaxCalls == 3

\* the longest vector handed to a vector operation
MaxDim == 2

\* the longest id parameter of a request, in characters
MaxParam == 5

\* the largest size of a seed drawn from the small integers
MaxSeed == 8

\* bits of significand of the binary floating point of the section on
\* rounded arithmetic (a JavaScript number has 53)
SignificandBits == 4

\* ----------------------------------------------------------------- numbers
RECURSIVE Gcd(_, _)
Gcd(a, b) == IF b = 0 THEN a ELSE Gcd(b, a % b)

Abs(k) == IF k < 0 THEN -k ELSE k

Min(a, b) == IF a < b THEN a ELSE b

\* JavaScript NaN (undefined operand, square root of a negative number)
NaN == [n |-> 0, d |-> 0, r |-> 0]

\* a real outside the modelled field (a sum of unlike surds, 1/0)
Unrep == [n |-> 0, d |-> 0, r |-> 1]

IsNum(x) == x.d # 0

\* the canonical record of (n/d)*sqrt(r), r square-free, d # 0
Canon(n, d, r) ==
  IF n = 0 THEN [n |-> 0, d |-> 1, r |-> 1]
  ELSE LET g == Gcd(Abs(n), Abs(d))
           s == IF d < 0 THEN -1 ELSE 1
       IN [n |-> s * (n \div g), d |-> s * (d \div g), r |-> r]

Rat(n, d) == Canon(n, d, 1)

Num(k) == Rat(k, 1)

Zero == Num(0)

One == Num(1)

Poison(x, y) == IF x = NaN \/ y = NaN THEN NaN ELSE Unrep

\* x + y
SAdd(x, y) ==
  IF ~IsNum(x) \/ ~IsNum(y) THEN Poison(x, y)
  ELSE IF x = Zero THEN y
  ELSE IF y = Zero THEN x
  ELSE IF x.r = y.r
  THEN LET g == Gcd(x.d, y.d)
       IN Canon(x.n * (y.d \div g) + y.n * (x.d \div g),
                (x.d \div g) * y.d, x.r)
  ELSE Unrep

SNeg(x) == IF IsNum(x) THEN [x EXCEPT !.n = -x.n] ELSE x

\* x - y
SSub(x, y) == SAdd(x, SNeg(y))

\* x * y: sqrt(r1)*sqrt(r2) = g*sqrt((r1/g)*(r2/g)) with g = gcd(r1, r2)
SMul(x, y) ==
  IF ~IsNum(x) \/ ~IsNum(y) THEN Poison(x, y)
  ELSE LET g == Gcd(x.r, y.r)
           a == Gcd(Abs(x.n), y.d)
           b == Gcd(Abs(y.n), x.d)
           c == Gcd(g, x.d \div b)
           e == Gcd(g \div c, y.d \div a)
       IN Canon((x.n \div a) * (y.n \div b) * ((g \div c) \div e),
                ((x.d \div b) \div c) * ((y.d \div a) \div e),
                (x.r \div g) * (y.r \div g))

\* 1 / x: 1/((n/d)*sqrt(r)) = (d/(n*r))*sqrt(r)
SInv(x) ==
  IF ~IsNum(x) THEN x
  ELSE IF x = Zero THEN Unrep
  ELSE Canon(x.d, x.n * x.r, x.r)

\* x / y
SDiv(x, y) == SMul(x, SInv(y))

\* the integer square root of m >= 0, by bisection on lo..hi
RECURSIVE ISqrtIn(_, _, _)
ISqrtIn(m, lo, hi) ==
  IF lo >= hi THEN lo
  ELSE LET mid == (lo + hi + 1) \div 2
       IN IF mid <= m \div mid THEN ISqrtIn(m, mid, hi)
          ELSE ISqrtIn(m, lo, mid - 1)

ISqrt(m) == IF m = 0 THEN 0 ELSE ISqrtIn(m, 1, m)

\* m = k*k*s with s square-free: <<k, s>>, k the largest f with f*f | m
SquarePart(m) ==
  IF m = 0 THEN <<0, 1>>
  ELSE LET K == {f \in 1..ISqrt(m) : m % (f * f) = 0}
           k == CHOOSE f \in K : \A g \in K : g <= f
       IN <<k, m \div (k * k)>>

\* Math.sqrt(x) of a rational x: sqrt(n/d) = (kn/(kd*sd))*sqrt(sn*sd)
SSqrt(x) ==
  IF ~IsNum(x) THEN x
  ELSE IF x.n < 0 THEN NaN
  ELSE IF x.r # 1 THEN Unrep
  ELSE LET pn == SquarePart(x.n)
           pd == SquarePart(x.d)
       IN Canon(pn[1], pd[1] * pd[2], pn[2] * pd[2])

\* x ** k for an integer k >= 0
RECURSIVE SPow(_, _)
SPow(x, k) == IF k = 0 THEN One ELSE SMul(x, SPow(x, k - 1))

\* x < y, x <= y on numbers; every comparison with NaN is false
SLt(x, y) == IsNum(x) /\ IsNum(y) /\ SSub(x, y).n < 0

SLe(x, y) == IsNum(x) /\ IsNum(y) /\ SSub(x, y).n <= 0

\* ----------------------------------------------------------------- vectors
\* a[i] of a JavaScript array, 0-based: undefined (NaN in arithmetic) past the end
At(a, i) == IF i + 1 \in 1..Len(a) THEN a[i + 1] ELSE NaN

add(a, b) == [i \in 1..Len(a) |-> SAdd(a[i], At(b, i - 1))]

subtract(a, b) == [i \in 1..Len(a) |-> SSub(a[i], At(b, i - 1))]

scale(v, scalar) == [i \in 1..Len(v) |-> SMul(v[i], scalar)]

\* a.reduce((sum, val, i) => sum + val * b[i], 0), from index k on
RECURSIVE dotFrom(_, _, _, _)
dotFrom(a, b, k, acc) ==
  IF k > Len(a) THEN acc
  ELSE dotFrom(a, b, k + 1, SAdd(acc, SMul(a[k], At(b, k - 1))))

dot(a, b) == dotFrom(a, b, 1, Zero)

magnitude(v) == SSqrt(dot(v, v))

\* normalize dividing by the squared magnitude
normalize_bySquare(v) ==
  LET mag == dot(v, v)
  IN IF mag = Zero THEN v ELSE scale(v, SInv(mag))

\* normalize without its test for a zero magnitude
normalize_unguarded(v) == scale(v, SInv(magnitude(v)))

normalize(v) ==
  LET mag == magnitude(v)
  IN IF mag = Zero THEN v ELSE scale(v, SInv(mag))

zero(dimensions) == [i \in 1..dimensions |-> Zero]

\* what a call gives back: a value, or the message of the Error it threw
Return(value) == [threw |-> FALSE, value |-> value, error |-> ""]

Throw(message) == [threw |-> TRUE, value |-> <<>>, error |-> message]

\* vectors.reduce((acc, v) => add(acc, v), acc), from index k on
RECURSIVE addAll(_, _, _)
addAll(vectors, k, acc) ==
  IF k > Len(vectors) THEN acc
  ELSE addAll(vectors, k + 1, add(acc, vectors[k]))

mean(vectors) ==
  IF Len(vectors) = 0 THEN Throw("Cannot compute mean of empty array")
  ELSE LET total == addAll(vectors, 1, zero(Len(vectors[1])))
       IN Return(scale(total, SInv(Num(Len(vectors)))))

\* the component-wise sum of a non-empty list of vectors (imported from
\* ./vector by path-extrapolator.ts)
sum(vectors) == addAll(vectors, 1, zero(Len(vectors[1])))

\* ------------------------------------------------------ rounded arithmetic
\* A JavaScript number is an IEEE 754 binary floating-point number: every
\* +, -, *, / and Math.sqrt gives the exact result rounded to the nearest
\* number of the format, ties to the even significand.  Here the format
\* has SignificandBits bits of significand; exponents are not bounded.

\* n/d > 0 as (n'/d') * 2^e with 2^(SignificandBits-1) <= n'/d' < 2^SignificandBits
RECURSIVE Scaled(_, _, _)
Scaled(n, d, e) ==
  IF n >= d * 2^SignificandBits THEN Scaled(n, 2 * d, e + 1)
  ELSE IF n < d * 2^(SignificandBits - 1) THEN Scaled(2 * n, d, e - 1)
  ELSE [n |-> n, d |-> d, e |-> e]

\* m * 2^e
TimesPow2(m, e) == IF e >= 0 THEN Rat(m * 2^e, 1) ELSE Rat(m, 2^(-e))

\* the rational x rounded to the nearest number of the format
fl(x) ==
  IF ~IsNum(x) \/ x.n = 0 THEN x
  ELSE LET s == Scaled(Abs(x.n), x.d, 0)
           q == s.n \div s.d
           rest == s.n % s.d
           m == IF 2 * rest > s.d \/ (2 * rest = s.d /\ q % 2 = 1)
                THEN q + 1 ELSE q
       IN TimesPow2((IF x.n < 0 THEN -1 ELSE 1) * m, s.e)

\* n/d > 0 as (n'/d') * 4^e with 4^(SignificandBits-1) <= n'/d' < 4^SignificandBits
RECURSIVE Scaled4(_, _, _)
Scaled4(n, d, e) ==
  IF n >= d * 4^SignificandBits THEN Scaled4(n, 4 * d, e + 1)
  ELSE IF n < d * 4^(SignificandBits - 1) THEN Scaled4(4 * n, d, e - 1)
  ELSE [n |-> n, d |-> d, e |-> e]

\* Math.sqrt(x), correctly rounded
sqrtFl(x) ==
  IF ~IsNum(x) \/ x.n = 0 THEN x
  ELSE IF x.n < 0 THEN NaN
  ELSE LET s == Scaled4(x.n, x.d, 0)
           q == ISqrt(s.n \div s.d)
           \* sqrt(n/d) against the midpoint q + 1/2
           above == 4 * s.n > (2 * q + 1) * (2 * q + 1) * s.d
           tie == 4 * s.n = (2 * q + 1) * (2 * q + 1) * s.d
           m == IF above \/ (tie /\ q % 2 = 1) THEN q + 1 ELSE q
       IN TimesPow2(m, s.e)

addFl(a, b) == [i \in 1..Len(a) |-> fl(SAdd(a[i], At(b, i - 1)))]

scaleFl(v, scalar) == [i \in 1..Len(v) |-> fl(SMul(v[i], scalar))]

RECURSIVE dotFromFl(_, _, _, _)
dotFromFl(a, b, k, acc) ==
  IF k > Len(a) THEN acc
  ELSE dotFromFl(a, b, k + 1, fl(SAdd(acc, fl(SMul(a[k], At(b, k - 1))))))

dotFl(a, b) == dotFromFl(a, b, 1, Zero)

magnitudeFl(v) == sqrtFl(dotFl(v, v))

normalizeFl(v) ==
  LET mag == magnitudeFl(v)
  IN IF mag = Zero THEN v ELSE scaleFl(v, fl(SInv(mag)))

RECURSIVE addAllFl(_, _, _)
addAllFl(vectors, k, acc) ==
  IF k > Len(vectors) THEN acc
  ELSE addAllFl(vectors, k + 1, addFl(acc, vectors[k]))

\* mean keeping a running average of the vectors seen so far
RECURSIVE runningFl(_, _, _)
runningFl(vectors, k, acc) ==
  IF k > Len(vectors) THEN acc
  ELSE runningFl(vectors, k + 1, scaleFl(addFl(acc, vectors[k]), Rat(1, 2)))

meanFl_running(vectors) ==
  IF Len(vectors) = 0 THEN Throw("Cannot compute mean of empty array")
  ELSE Return(runningFl(vectors, 1, zero(Len(vectors[1]))))

meanFl(vectors) ==
  IF Len(vectors) = 0 THEN Throw("Cannot compute mean of empty array")
  ELSE LET total == addAllFl(vectors, 1, zero(Len(vectors[1])))
       IN Return(scaleFl(total, fl(SInv(Num(Len(vectors))))))

\* CentroidPathExtrapolator.extrapolate
centroidExtrapolateFl(path) ==
  IF Len(path) = 0 THEN Throw("Path cannot be empty")
  ELSE LET m == meanFl(path)
       IN IF m.threw THEN m ELSE Return(normalizeFl(m.value))

\* embeddings of the format: unit axes, the zero vector and a vector that
\* uses every bit of the significand
FlVecs ==
  {<<Num(1), Num(0)>>, <<Num(0), Num(1)>>, <<Num(-1), Num(0)>>,
   <<Num(0), Num(0)>>,
   <<Rat(2^(SignificandBits - 1) + 1, 2^SignificandBits),
     Rat(2^SignificandBits - 3, 2^SignificandBits)>>}

FlPaths == UNION {[1..n -> FlVecs] : n \in 0..MaxLen}

\* -------------------------------------------------------------- strategies
\* powerIteration's default number of rounds
iterations == 50

LastPathExtrapolator == Return([name |-> "last"])

\* constructor(alpha = 0.6)
MomentumPathExtrapolator(alpha) ==
  IF SLe(alpha, Zero) \/ SLe(One, alpha)
  THEN Throw("Alpha must be in (0, 1)")
  ELSE Return([name |-> "momentum", alpha |-> alpha])

CentroidPathExtrapolator == Return([name |-> "centroid"])

\* the PCA constructor accepting a window of 0
PCAPathExtrapolator_windowZero(extrapolationFactor, projectionWindow, decayFactor) ==
  IF projectionWindow < 0
  THEN Throw("projectionWindow must be at least 1")
  ELSE IF SLe(decayFactor, Zero) \/ SLe(One, decayFactor)
  THEN Throw("decayFactor must be in (0, 1)")
  ELSE Return([name |-> "pca",
               extrapolationFactor |-> extrapolationFactor,
               projectionWindow |-> projectionWindow,
               decayFactor |-> decayFactor])

\* constructor(extrapolationFactor = 1.5, projectionWindow = 1, decayFactor = 0.6)
PCAPathExtrapolator(extrapolationFactor, projectionWindow, decayFactor) ==
  IF projectionWindow < 1
  THEN Throw("projectionWindow must be at least 1")
  ELSE IF SLe(decayFactor, Zero) \/ SLe(One, decayFactor)
  THEN Throw("decayFactor must be in (0, 1)")
  ELSE Return([name |-> "pca",
               extrapolationFactor |-> extrapolationFactor,
               projectionWindow |-> projectionWindow,
               decayFactor |-> decayFactor])

\* the registry with the centroid key holding the Last instance
extrapolators_misnamed ==
  [last |-> LastPathExtrapolator.value,
   momentum |-> MomentumPathExtrapolator(Rat(3, 5)).value,
   centroid |-> LastPathExtrapolator.value,
   pca |-> PCAPathExtrapolator(Rat(3, 2), 15, Rat(4, 5)).value]

\* the registry
extrapolators ==
  [last |-> LastPathExtrapolator.value,
   momentum |-> MomentumPathExtrapolator(Rat(3, 5)).value,
   centroid |-> CentroidPathExtrapolator.value,
   pca |-> PCAPathExtrapolator(Rat(3, 2), 15, Rat(4, 5)).value]

ExtrapolatorName == DOMAIN extrapolators

\* the value of a property no object on the prototype chain has
undefined == [undefined |-> TRUE]

\* properties the registry object inherits from Object.prototype
ObjectPrototype == {"constructor", "toString"}

\* extrapolators[name]: a property read, of any string
getExtrapolator(name) ==
  IF name \in ExtrapolatorName THEN extrapolators[name]
  ELSE IF name \in ObjectPrototype THEN [inherited |-> name]
  ELSE undefined

DEFAULT_EXTRAPOLATOR == "pca"

\* lastExtrapolate with an empty path answered by an empty vector
lastExtrapolate_noThrow(path) ==
  IF Len(path) = 0 THEN Return(<<>>)
  ELSE Return(path[Len(path)])

\* lastExtrapolate renormalizing the last point
lastExtrapolate_normalized(path) ==
  IF Len(path) = 0 THEN Throw("Path cannot be empty")
  ELSE Return(normalize(path[Len(path)]))

\* LastPathExtrapolator.extrapolate
lastExtrapolate(path) ==
  IF Len(path) = 0 THEN Throw("Path cannot be empty")
  ELSE Return(path[Len(path)])

\* centroidExtrapolate averaging all points but the first
centroidExtrapolate_skipFirst(path) ==
  IF Len(path) = 0 THEN Throw("Path cannot be empty")
  ELSE IF Len(path) = 1 THEN Return(normalize(path[1]))
  ELSE Return(normalize(mean(Tail(path)).value))

\* centroidExtrapolate returning the mean as it is
centroidExtrapolate_raw(path) ==
  IF Len(path) = 0 THEN Throw("Path cannot be empty")
  ELSE mean(path)

\* CentroidPathExtrapolator.extrapolate
centroidExtrapolate(path) ==
  IF Len(path) = 0 THEN Throw("Path cannot be empty")
  ELSE LET m == mean(path)
       IN IF m.threw THEN m ELSE Return(normalize(m.value))

\* momentumEnter renormalizing a single point
momentumEnter_normalized(path) ==
  IF Len(path) = 0
  THEN [ends |-> TRUE, outcome |-> Throw("Path cannot be empty")]
  ELSE IF Len(path) = 1
  THEN [ends |-> TRUE, outcome |-> Return(normalize(path[1]))]
  ELSE [ends |-> FALSE, outcome |-> Return(<<>>)]

\* MomentumPathExtrapolator.extrapolate before computeVelocityEma: the
\* outcome when it ends there
momentumEnter(path) ==
  IF Len(path) = 0
  THEN [ends |-> TRUE, outcome |-> Throw("Path cannot be empty")]
  ELSE IF Len(path) = 1
  THEN [ends |-> TRUE, outcome |-> Return(path[1])]
  ELSE [ends |-> FALSE, outcome |-> Return(<<>>)]

\* pcaEnter falling back only below two points
pcaEnter_belowTwo(path) ==
  IF Len(path) = 0
  THEN [ends |-> TRUE, outcome |-> Throw("Path cannot be empty")]
  ELSE IF Len(path) < 2
  THEN [ends |-> TRUE, outcome |-> Return(normalize(mean(path).value))]
  ELSE [ends |-> FALSE, outcome |-> Return(<<>>)]

\* PCAPathExtrapolator.extrapolate before powerIteration: the outcome when
\* it ends there
pcaEnter(path) ==
  IF Len(path) = 0
  THEN [ends |-> TRUE, outcome |-> Throw("Path cannot be empty")]
  ELSE IF Len(path) < 3
  THEN [ends |-> TRUE,
        outcome |-> LET m == mean(path)
                    IN IF m.threw THEN m ELSE Return(normalize(m.value))]
  ELSE [ends |-> FALSE, outcome |-> Return(<<>>)]

\* pcaTarget measured from the origin: the centroid is not added
pcaTarget_fromOrigin(this, centroid, principalAxis, projection) ==
  scale(principalAxis, SMul(projection, this.extrapolationFactor))

\* pcaTarget taking the extrapolation factor without its sign
pcaTarget_unsigned(this, centroid, principalAxis, projection) ==
  add(centroid,
      scale(principalAxis,
            SMul(projection,
                 IF this.extrapolationFactor.n < 0
                 THEN SNeg(this.extrapolationFactor)
                 ELSE this.extrapolationFactor)))

\* the target of PCA extrapolate
pcaTarget(this, centroid, principalAxis, projection) ==
  add(centroid,
      scale(principalAxis, SMul(projection, this.extrapolationFactor)))

\* emaStep with the two weights exchanged
emaStep_swapped(alpha, path, i, ema) ==
  LET velocity == subtract(path[i + 1], path[i])
  IN IF i = 1 THEN velocity
     ELSE [d \in 1..Len(ema) |->
             SAdd(SMul(SSub(One, alpha), At(velocity, d - 1)),
                  SMul(alpha, ema[d]))]

\* emaStep blending the first velocity into the zero vector
emaStep_unseeded(alpha, path, i, ema) ==
  LET velocity == subtract(path[i + 1], path[i])
  IN [d \in 1..Len(ema) |->
        SAdd(SMul(alpha, At(velocity, d - 1)),
             SMul(SSub(One, alpha), ema[d]))]

\* one pass of computeVelocityEma's loop body, for loop index i >= 1
emaStep(alpha, path, i, ema) ==
  LET velocity == subtract(path[i + 1], path[i])
  IN IF i = 1 THEN velocity
     ELSE [d \in 1..Len(ema) |->
             SAdd(SMul(alpha, At(velocity, d - 1)),
                  SMul(SSub(One, alpha), ema[d]))]

\* one round of powerIteration's loop body
powerRound(centered, v) ==
  LET Cv == sum([k \in 1..Len(centered) |->
                   scale(centered[k], dot(centered[k], v))])
  IN normalize(Cv)

\* powerLoopGuard leaving the loop once a round no longer changes v
powerLoopGuard_converged(centered, v, i) ==
  i < iterations /\ powerRound(centered, v) # v

\* the loop condition of powerIteration
powerLoopGuard(centered, v, i) == i < iterations

\* computeWeightedProjection's loop from index i on
RECURSIVE projectionLoop(_, _, _, _, _, _, _, _)
projectionLoop(decayFactor, centered, principalAxis, windowSize, windowStart, i, weightedSum, totalWeight) ==
  IF ~(i < windowSize) THEN SDiv(weightedSum, totalWeight)
  ELSE LET distanceFromEnd == windowSize - 1 - i
           weight == SPow(decayFactor, distanceFromEnd)
           proj == dot(centered[windowStart + i + 1], principalAxis)
       IN projectionLoop(decayFactor, centered, principalAxis, windowSize,
                         windowStart, i + 1,
                         SAdd(weightedSum, SMul(weight, proj)),
                         SAdd(totalWeight, weight))

\* computeWeightedProjection returning the size of the projection
computeWeightedProjection_magnitude(this, centered, principalAxis) ==
  LET windowSize == Min(this.projectionWindow, Len(centered))
      windowStart == Len(centered) - windowSize
      proj == projectionLoop(this.decayFactor, centered, principalAxis,
                             windowSize, windowStart, 0, Zero, Zero)
  IN IF IsNum(proj) /\ proj.n < 0 THEN SNeg(proj) ELSE proj

\* computeWeightedProjection over the whole path, whatever projectionWindow
computeWeightedProjection_wholePath(this, centered, principalAxis) ==
  projectionLoop(this.decayFactor, centered, principalAxis, Len(centered),
                 0, 0, Zero, Zero)

computeWeightedProjection(this, centered, principalAxis) ==
  LET windowSize == Min(this.projectionWindow, Len(centered))
      windowStart == Len(centered) - windowSize
  IN projectionLoop(this.decayFactor, centered, principalAxis, windowSize,
                    windowStart, 0, Zero, Zero)

\* computeVelocityEma's loop from index i on
RECURSIVE computeVelocityEma(_, _, _, _)
computeVelocityEma(alpha, path, i, ema) ==
  IF ~(i < Len(path)) THEN ema
  ELSE CHOOSE r \in {computeVelocityEma(alpha, path, i + 1, e) :
                       e \in {emaStep(alpha, path, i, ema)}} : TRUE

\* powerIteration's loop from round i on
RECURSIVE powerIteration(_, _, _)
powerIteration(centered, v, i) ==
  IF ~powerLoopGuard(centered, v, i) THEN v
  ELSE CHOOSE r \in {powerIteration(centered, w, i + 1) :
                       w \in {powerRound(centered, v)}} : TRUE

\* PCAPathExtrapolator.extrapolate from the principal axis on
pcaFinish(this, centroid, centered, principalAxis) ==
  LET projection == computeWeightedProjection(this, centered, principalAxis)
  IN Return(normalize(pcaTarget(this, centroid, principalAxis, projection)))

\* this.extrapolate(path), run from entry to return with nothing in between
extrapolate(this, path) ==
  IF this.name = "last" THEN lastExtrapolate(path)
  ELSE IF this.name = "centroid" THEN centroidExtrapolate(path)
  ELSE IF this.name = "momentum"
  THEN LET entry == momentumEnter(path)
       IN IF entry.ends THEN entry.outcome
          ELSE LET velocityEma ==
                     computeVelocityEma(this.alpha, path, 1, zero(Len(path[1])))
               IN Return(normalize(add(path[Len(path)], velocityEma)))
  ELSE LET entry == pcaEnter(path)
       IN IF entry.ends THEN entry.outcome
          ELSE LET centroid == mean(path).value
                   centered == [k \in 1..Len(path) |-> subtract(path[k], centroid)]
               IN CHOOSE r \in
                    {pcaFinish(this, centroid, centered, principalAxis) :
                       principalAxis \in
                         {powerIteration(centered, normalize(centered[1]), 0)}} :
                    TRUE

\* ------------------------------------------------------------------ inputs
\* the embeddings a path is drawn from: the zero vector, two antipodal unit
\* vectors and a vector of magnitude 2 across them
Vecs ==
  {<<Num(0), Num(0)>>, <<Num(1), Num(0)>>, <<Num(-1), Num(0)>>,
   <<Num(0), Num(2)>>}

Paths == UNION {[1..n -> Vecs] : n \in 0..MaxLen}

\* constructor arguments, in and out of their domains
AlphaArgs == {Num(0), Rat(1, 2), Rat(3, 5), Num(1)}

FactorArgs == {Rat(3, 2), Num(-1)}

WindowArgs == {0, 2, 15}

DecayArgs == {Num(0), Rat(1, 2), Rat(4, 5), Num(1)}

\* the paths the callers of a shared instance pass: one, two and three points
CallPaths ==
  {<< <<Num(0), Num(2)>> >>,
   << <<Num(1), Num(0)>>, <<Num(0), Num(2)>> >>,
   << <<Num(0), Num(2)>>, <<Num(0), Num(2)>>, <<Num(-1), Num(0)>> >>}

\* the components and the vectors handed to the vector operations
Scalars == {Num(-1), Num(0), Num(2), Rat(1, 2), NaN}

AlgVecs == UNION {[1..n -> Scalars] : n \in 0..MaxDim}

\* constructor arguments over their whole types: below, at, inside and above
\* the bounds of the checked ranges, and NaN
AlphaDomain ==
  {Num(-1), Num(0), Rat(1, 2), Rat(3, 5), Num(1), Num(2), NaN}

FactorDomain == {Num(-1), Num(0), Rat(3, 2), Num(1000)}

WindowDomain == {-1, 0, 1, 2, 15}

DecayDomain ==
  {Num(-1), Num(0), Rat(1, 2), Rat(4, 5), Num(1), Num(2), NaN}

\* the arguments a constructor call passes: all, or a prefix of them
MomentumGiven == {<<>>} \cup {<<alpha>> : alpha \in AlphaDomain}

PCAGiven ==
  {<<>>} \cup {<<f>> : f \in FactorDomain}
    \cup {<<f, w>> : f \in FactorDomain, w \in WindowDomain}
    \cup {<<f, w, d>> : f \in FactorDomain, w \in WindowDomain, d \in DecayDomain}

\* the names looked up in the registry: its keys and other strings
LookupNames == ExtrapolatorName \cup ObjectPrototype \cup {"nonexistent", "PCA", ""}

\* Exact arithmetic bounds the PCA inputs: the components of the power
\* iterate grow with every round unless the direction is a fixed point of
\* the round, so a path of three or more points is drawn only when its
\* starting direction is one (the first centered point is the zero vector
\* or an eigenvector of the covariance operator).
Representable(path) ==
  Len(path) < 3 \/
    LET c == mean(path).value
        x == [k \in 1..Len(path) |-> subtract(path[k], c)]
        v0 == normalize(x[1])
    IN powerRound(x, v0) = v0

\* ------------------------------------------------- the /api/similar route
\* A query parameter is null or a string; a string is the sequence of its
\* characters.
Null == [given |-> FALSE, text |-> <<>>]

Str(text) == [given |-> TRUE, text |-> text]

WhiteSpace == {" "}

digit ==
  [c \in {"0", "1", "2", "3", "4", "5", "6", "7", "8", "9"} |->
     CASE c = "0" -> 0 [] c = "1" -> 1 [] c = "2" -> 2 [] c = "3" -> 3
       [] c = "4" -> 4 [] c = "5" -> 5 [] c = "6" -> 6 [] c = "7" -> 7
       [] c = "8" -> 8 [] c = "9" -> 9]

\* text.split(separator), from character k on
RECURSIVE splitFrom(_, _, _, _, _)
splitFrom(text, separator, k, piece, pieces) ==
  IF k > Len(text) THEN Append(pieces, piece)
  ELSE IF text[k] = separator
  THEN splitFrom(text, separator, k + 1, <<>>, Append(pieces, piece))
  ELSE splitFrom(text, separator, k + 1, Append(piece, text[k]), pieces)

split(text, separator) == splitFrom(text, separator, 1, <<>>, <<>>)

RECURSIVE trimStart(_)
trimStart(text) ==
  IF Len(text) > 0 /\ text[1] \in WhiteSpace THEN trimStart(Tail(text))
  ELSE text

RECURSIVE trimEnd(_)
trimEnd(text) ==
  IF Len(text) > 0 /\ text[Len(text)] \in WhiteSpace
  THEN trimEnd(SubSeq(text, 1, Len(text) - 1))
  ELSE text

trim(text) == trimEnd(trimStart(text))

\* the decimal digits text starts with at k: how many, and their value
RECURSIVE digitsFrom(_, _, _, _)
digitsFrom(text, k, count, value) ==
  IF k <= Len(text) /\ text[k] \in DOMAIN digit
  THEN digitsFrom(text, k + 1, count + 1, 10 * value + digit[text[k]])
  ELSE [count |-> count, value |-> value]

\* Number.parseInt(text, 10): leading white space, a sign, then the longest
\* run of digits; NaN when there is none
parseInt(text) ==
  LET t == trimStart(text)
      signed == Len(t) > 0 /\ t[1] \in {"+", "-"}
      run == digitsFrom(t, IF signed THEN 2 ELSE 1, 0, 0)
  IN IF run.count = 0 THEN [nan |-> TRUE, value |-> 0]
     ELSE [nan |-> FALSE,
           value |-> IF signed /\ t[1] = "-" THEN -run.value ELSE run.value]

\* Number(text), as z.coerce.number() applies it: the whole trimmed text
\* must be a number (here: an optionally signed run of digits); "" is 0
Number(text) ==
  LET t == trim(text)
      signed == Len(t) > 0 /\ t[1] \in {"+", "-"}
      run == digitsFrom(t, IF signed THEN 2 ELSE 1, 0, 0)
  IN IF Len(t) = 0 THEN [nan |-> FALSE, value |-> 0]
     ELSE IF run.count = 0 \/ run.count + (IF signed THEN 1 ELSE 0) # Len(t)
     THEN [nan |-> TRUE, value |-> 0]
     ELSE [nan |-> FALSE,
           value |-> IF signed /\ t[1] = "-" THEN -run.value ELSE run.value]

\* z.coerce.number().parse(input): the number, or a ZodError for NaN
number(input) ==
  LET n == Number(input)
  IN IF n.nan THEN Throw("ZodError") ELSE Return(n.value)

\* param || fallback
orElse(param, fallback) ==
  IF ~param.given \/ param.text = <<>> THEN fallback ELSE param.text

parseIdList(idParam) ==
  IF ~idParam.given \/ idParam.text = <<>> THEN <<>>
  ELSE LET pieces == split(idParam.text, ",")
           parsed == [k \in 1..Len(pieces) |-> parseInt(trim(pieces[k]))]
           kept == SelectSeq(parsed, LAMBDA n : ~n.nan)
       IN [k \in 1..Len(kept) |-> kept[k].value]

MODEL_NAME == "model"

\* the rows of the embeddings table: two images of the configured model on
\* one line through the origin, and one image of another model
Table ==
  {[id |-> 1, filename |-> "a.jpg", model |-> MODEL_NAME,
    embedding |-> <<Num(1), Num(0)>>],
   [id |-> 2, filename |-> "b.jpg", model |-> MODEL_NAME,
    embedding |-> <<Num(-1), Num(0)>>],
   [id |-> 11, filename |-> "c.jpg", model |-> "other",
    embedding |-> <<Num(1), Num(0)>>]}

\* the sequences that list every element of the set rows once
Orders(rows) ==
  {order \in [1..Cardinality(rows) -> rows] :
     \A r \in rows : \E k \in DOMAIN order : order[k] = r}

\* select ... where id in idList and model = MODEL_NAME
selectPath(idList) ==
  {r \in Table : r.model = MODEL_NAME /\ \E k \in DOMAIN idList : idList[k] = r.id}

\* new Map(pathResults.map((r) => [r.id, r])).get(id)
embeddingMapGet(pathResults, id) ==
  IF \E k \in DOMAIN pathResults : pathResults[k].id = id
  THEN pathResults[CHOOSE k \in DOMAIN pathResults :
                     /\ pathResults[k].id = id
                     /\ \A j \in DOMAIN pathResults :
                          pathResults[j].id = id => j <= k]
  ELSE undefined

\* orderedPath taking the rows as the database returned them
orderedPath_rowOrder(idList, pathResults) == pathResults

\* idList.map((id) => embeddingMap.get(id)).filter((r) => r !== undefined)
orderedPath(idList, pathResults) ==
  SelectSeq([k \in 1..Len(idList) |-> embeddingMapGet(pathResults, idList[k])],
            LAMBDA r : r # undefined)

\* vector_distance_cos(a, b) <= 0.2, for vectors on one line through the
\* origin: the distance is 0 for the same direction and 2 for opposite ones
near(a, b) ==
  LET d == dot(a, b) IN IsNum(d) /\ d.n > 0

\* select ... where id not in idList and model = MODEL_NAME and the
\* distance to the target is at most 0.2: the ids found (their order and
\* the limit are the database's)
selectSimilar(idList, targetEmbedding) ==
  {r.id : r \in {q \in Table :
                   /\ q.model = MODEL_NAME
                   /\ \A k \in DOMAIN idList : idList[k] # q.id
                   /\ near(q.embedding, targetEmbedding)}}

\* the request's parameters: strings of at most MaxParam characters
Chars == {"1", "2", ",", " ", "x"}

IdParams ==
  {Null} \cup {Str(t) : t \in UNION {[1..n -> Chars] : n \in 0..MaxParam}}

LimitParams == {Null, Str(<<"1", "0">>), Str(<<"1", "x">>), Str(<<" ">>)}

\* ------------------------------------------------- the App's path editing
\* the query parameter seed's default
defaultSeed == 42

\* String(n) for an integer n
RECURSIVE digitsOf(_)
digitsOf(n) ==
  LET last == CHOOSE c \in DOMAIN digit : digit[c] = n % 10
  IN IF n < 10 THEN <<last>> ELSE Append(digitsOf(n \div 10), last)

toString(n) == IF n < 0 THEN <<"-">> \o digitsOf(-n) ELSE digitsOf(n)

\* numbers.join(separator)
RECURSIVE join(_, _)
join(numbers, separator) ==
  IF Len(numbers) = 0 THEN <<>>
  ELSE IF Len(numbers) = 1 THEN toString(numbers[1])
  ELSE join(SubSeq(numbers, 1, Len(numbers) - 1), separator)
         \o <<separator>> \o toString(numbers[Len(numbers)])

\* numbers.slice(from, to), with 0 <= from and to <= numbers.length
slice(numbers, from, to) == SubSeq(numbers, from + 1, to)

\* a number[] | null
NoList == [given |-> FALSE, list |-> <<>>]

List(numbers) == [given |-> TRUE, list |-> numbers]

\* the query parameter seed: null or an integer
NoSeed == [given |-> FALSE, value |-> 0]

Seed(n) == [given |-> TRUE, value |-> n]

\* App's const idList: the ids the query parameter id names
appIdList(idParam) ==
  IF ~idParam.given \/ idParam.text = <<>> THEN <<>>
  ELSE LET pieces == split(idParam.text, ",")
           parsed == [k \in 1..Len(pieces) |-> parseInt(trim(pieces[k]))]
           kept == SelectSeq(parsed, LAMBDA n : ~n.nan)
       IN [k \in 1..Len(kept) |-> kept[k].value]

\* App's const mode
mode(textParam, numbers) ==
  IF textParam.given /\ textParam.text # <<>> THEN "search"
  ELSE IF Len(numbers) > 0 THEN "similar" ELSE "random"

\* the query parameters setQuery is given by updatePath(newIdList)
updatePath(newIdList) ==
  [id |-> IF newIdList.given THEN Str(join(newIdList.list, ",")) ELSE Null,
   seed |-> IF newIdList.given THEN NoSeed ELSE Seed(defaultSeed),
   text |-> Null]

\* the handlers of the path strip; index counts from 0
handlePathEndHere(numbers, index) ==
  updatePath(List(slice(numbers, 0, index + 1)))

handlePathStartHere(numbers, index) ==
  updatePath(List(slice(numbers, index, Len(numbers))))

handlePathSolo(numbers, index) == updatePath(List(<<numbers[index + 1]>>))

\* numbers.filter((_, i) => i !== index)
without(numbers, index) ==
  LET kept == SelectSeq([k \in 1..Len(numbers) |-> <<k, numbers[k]>>],
                        LAMBDA e : e[1] # index + 1)
  IN [k \in 1..Len(kept) |-> kept[k][2]]

handlePathRemove_keepEmpty(numbers, index) ==
  updatePath(List(without(numbers, index)))

handlePathRemove(numbers, index) ==
  LET newPath == without(numbers, index)
  IN updatePath(IF Len(newPath) # 0 THEN List(newPath) ELSE NoList)

handleClearPath == updatePath(NoList)

\* the query parameters a page is opened with
QuerySeeds == {NoSeed, Seed(7)}

QueryTexts == {Null, Str(<<"x">>)}

\* App before the page is opened: previous is the id list the last path
\* edit started from, handler the name of that edit
NoPage ==
  [pc |-> "idle", id |-> Null, seed |-> NoSeed, text |-> Null,
   previous |-> <<>>, handler |-> "none"]

\* --------------------------------------------------- useInfiniteScroll
\* the IntersectionObservers one mounted hook may create
MaxObservers == 4

\* the sentinel elements React may hand to the ref; NoNode is null
NoNode == 0

Nodes == {1, 2}

\* the hook's refs and the observers it created, in creation order: an
\* observer watches the targets it was told to observe until disconnect();
\* observerRef is the position of its observer, NoObserver for null
NoObserver == 0

IntersectionObserver == [target |-> NoNode, observing |-> {}]

observe(observer, node) ==
  [observer EXCEPT !.target = node, !.observing = observer.observing \cup {node}]

disconnect(observer) == [observer EXCEPT !.observing = {}]

\* sentinelRef(node) of the closure made with enabled, on the hook's refs
sentinelRef_noDisconnect(refs, node, enabled) ==
  LET cleared == [refs EXCEPT !.observerRef = NoObserver]
  IN IF ~(node # NoNode /\ enabled) THEN cleared
     ELSE [cleared EXCEPT
             !.observers = Append(cleared.observers, observe(IntersectionObserver, node)),
             !.observerRef = Len(cleared.observers) + 1]

sentinelRef(refs, node, enabled) ==
  LET cleared ==
        IF refs.observerRef # NoObserver
        THEN [refs EXCEPT
                !.observers[refs.observerRef] = disconnect(refs.observers[refs.observerRef]),
                !.observerRef = NoObserver]
        ELSE refs
  IN IF ~(node # NoNode /\ enabled) THEN cleared
     ELSE [cleared EXCEPT
             !.observers = Append(cleared.observers, observe(IntersectionObserver, node)),
             !.observerRef = Len(cleared.observers) + 1]

\* the hook after its first render: node and enabled are those of the
\* latest invocation of sentinelRef, invoked how many there were (up to
\* MaxCalls are counted), loads the calls of onLoadMore, and unwanted
\* whether one of them came while the latest invocation had no node or
\* enabled = false
NoScroll ==
  [observerRef |-> NoObserver, observers |-> <<>>, node |-> NoNode,
   enabled |-> FALSE, invoked |-> 0, loads |-> 0, unwanted |-> FALSE]

\* ------------------------------------------------------------ getEmbedding
generateIdempotencyKey(filename, model) == filename \o ":" \o model

\* the images getEmbedding is called for
ImagePaths == {"a.jpg", "b.jpg"}

\* db.select().from(embeddings).where(eq(idempotencyKey, key)).limit(1)
selectByKey(rows, key) == {r \in rows : r.idempotencyKey = key}

\* db.insert(embeddings).values(values): idempotency_key is UNIQUE, id
\* counts up; the outcome is the table, or the constraint's error
insert(rows, values) ==
  IF \E r \in rows : r.idempotencyKey = values.idempotencyKey
  THEN Throw("SQLITE_CONSTRAINT: UNIQUE constraint failed: embeddings.idempotency_key")
  ELSE Return(rows \cup {[id |-> Cardinality(rows) + 1,
                          idempotencyKey |-> values.idempotencyKey,
                          filename |-> values.filename,
                          model |-> values.model]})

\* a getEmbedding call before it is made: at is the await it is suspended
\* at ("select", "fetch", "insert") or how it ended ("cached", "saved",
\* "threw"), failed the await that rejected
NoGet ==
  [at |-> "idle", imagePath |-> "", idempotencyKey |-> "", failed |-> "none"]

\* the embeddings table, empty, and no call made
NoStore == [rows |-> {}, gets |-> [c \in {"A", "B"} |-> NoGet]]

\* generateEmbeddingFromSeed before it is called: given is its argument,
\* seed the SeededRandom's field, i the loop index and last the component
\* written last, in units of 1/modulus
NoEmbedding == [pc |-> "idle", given |-> 0, seed |-> 0, i |-> 0, last |-> 0]

NoRequest ==
  [pc |-> "idle", id |-> Null, limit |-> Null, idList |-> <<>>,
   pathResults |-> <<>>, called |-> FALSE, path |-> <<>>,
   target |-> Return(<<>>), status |-> 0, thrown |-> FALSE,
   caught |-> FALSE,
   source |-> <<>>, results |-> {}]

\* ------------------------------------------------------ the seeded embedding
\* SeededRandom.next: this.seed = (this.seed * 9301 + 49_297) % 233_280
multiplier == 9301

increment == 49297

modulus == 233280

\* generateEmbeddingFromSeed's dimensions
embeddingDimensions == 512

\* (n * multiplier) modulo modulus for n >= 0, by parts that stay below 2^31
timesMod(n) == (((n * 93) % modulus) * 100 + n) % modulus

\* (seed * multiplier + increment) % modulus for an integer seed.  The
\* JavaScript remainder has the sign of the dividend, which is negative
\* exactly when seed <= -6 (5 * 9301 < 49297 < 6 * 9301).
nextSeed(seed) ==
  IF seed >= 0 THEN (timesMod(seed) + increment) % modulus
  ELSE IF -seed <= increment \div multiplier
  THEN (seed * multiplier + increment) % modulus
  ELSE -((timesMod(-seed) - increment) % modulus)

\* rng.next() * 2 - 1, in units of 1/modulus
component(seed) == 2 * seed - modulus

\* the seeds a request can carry: small integers of both signs, the default
\* and the largest state
Seeds == (-MaxSeed..MaxSeed) \cup {42, modulus - 1, -(modulus - 1)}

\* ------------------------------------------------------------------- state
VARIABLES
  pc,        \* "start", "ctor_threw", "ready", "ema", "power", "done"
  self,      \* the strategy instance extrapolate is called on
  path,      \* extrapolate's argument
  i,         \* loop index of computeVelocityEma / powerIteration
  ema,       \* computeVelocityEma's ema
  v,         \* powerIteration's v
  centroid,  \* PCA extrapolate's centroid
  centered,  \* PCA extrapolate's centered
  projection,\* PCA extrapolate's projection
  result,    \* what the constructor or extrapolate gave back
  args,      \* the arguments of the last constructor, lookup or vector call
  calls,     \* per caller of a shared instance: its call's position, path
             \* (input: as passed) and result; met: another call was
             \* running at entry
  log,       \* the shared instance's calls: how many started, and what the
             \* finished ones got, <<path, outcome>>
  frames,    \* per activation of extrapolate: its local variables
  alone,     \* what each registered strategy returns for each path of
             \* CallPaths when the call runs alone: <<name, path, outcome>>
  server,    \* a GET /api/similar request: its parameters, the handler's
             \* locals and position, and the response
  rng,       \* generateEmbeddingFromSeed: the SeededRandom and the loop
  ui,        \* App: the query parameters id, seed and text
  scroll,    \* useInfiniteScroll: observerRef and the observers created
  store      \* the embeddings table and the getEmbedding calls in flight

\* the path-extrapolation core: a constructor call, an extrapolate call and
\* the callers of a shared instance
core ==
  <<pc, self, path, i, ema, v, centroid, centered, projection, result,
    args, calls, log, frames, alone>>

\* the collaborators of the core
apps == <<server, rng, ui, scroll, store>>

vars == <<core, apps>>

\* the callers that share one registered instance
Callers == {"A", "B"}

\* no constructor, lookup or vector call made yet
NoArgs == [call |-> "none", given |-> <<>>]

\* a caller that has not called yet
NoCall ==
  [pc |-> "idle", path |-> <<>>, input |-> <<>>, result |-> Return(<<>>),
   met |-> FALSE]

\* the locals of an activation before it declares them
NoFrame ==
  [i |-> 0, ema |-> <<>>, v |-> <<>>, centroid |-> <<>>, centered |-> <<>>,
   projection |-> Zero]

NoInstance == [name |-> "none"]

Fresh ==
  /\ pc = "start"
  /\ self = NoInstance
  /\ path = <<>>
  /\ i = 0
  /\ ema = <<>>
  /\ v = <<>>
  /\ centroid = <<>>
  /\ centered = <<>>
  /\ projection = Zero
  /\ result = Return(<<>>)
  /\ args = NoArgs
  /\ calls = [c \in Callers |-> NoCall]
  /\ log = [started |-> 0, got |-> {}]
  /\ frames = [c \in Callers |-> NoFrame]
  /\ server = NoRequest
  /\ rng = NoEmbedding
  /\ ui = NoPage
  /\ scroll = NoScroll
  /\ store = NoStore

Init == Fresh /\ alone = {}

\* new C(...): the instance, or the constructor's Error
Construct(made) ==
  /\ pc = "start"
  /\ IF made.threw
     THEN pc' = "ctor_threw" /\ result' = made /\ self' = self
     ELSE pc' = "ready" /\ self' = made.value /\ result' = result
  /\ UNCHANGED <<apps, args, calls, log, frames, alone, path, i, ema, v, centroid, centered, projection>>

NewLast == Construct(LastPathExtrapolator)

NewMomentum == \E alpha \in AlphaArgs : Construct(MomentumPathExtrapolator(alpha))

NewCentroid == Construct(CentroidPathExtrapolator)

NewPCA ==
  \E f \in FactorArgs, w \in WindowArgs, d \in DecayArgs :
    Construct(PCAPathExtrapolator(f, w, d))

\* getExtrapolator(name) for a registered name
GetExtrapolator ==
  /\ pc = "start"
  /\ \E name \in ExtrapolatorName : self' = getExtrapolator(name)
  /\ pc' = "ready"
  /\ UNCHANGED <<apps, args, calls, log, frames, alone, path, i, ema, v, centroid, centered, projection, result>>

\* extrapolate ends: it returned a vector or threw
Finish(outcome) ==
  /\ pc' = "done"
  /\ result' = outcome

LastExtrapolate ==
  /\ pc = "ready" /\ self.name = "last"
  /\ \E p \in Paths :
       /\ path' = p
       /\ Finish(lastExtrapolate(p))
  /\ UNCHANGED <<apps, args, calls, log, frames, alone, self, i, ema, v, centroid, centered, projection>>

CentroidExtrapolate ==
  /\ pc = "ready" /\ self.name = "centroid"
  /\ \E p \in Paths :
       /\ path' = p
       /\ Finish(centroidExtrapolate(p))
  /\ UNCHANGED <<apps, args, calls, log, frames, alone, self, i, ema, v, centroid, centered, projection>>

\* MomentumPathExtrapolator.extrapolate up to the loop of computeVelocityEma
MomentumExtrapolate ==
  /\ pc = "ready" /\ self.name = "momentum"
  /\ \E p \in Paths :
       /\ path' = p
       /\ LET entry == momentumEnter(p)
          IN IF entry.ends
             THEN Finish(entry.outcome) /\ UNCHANGED <<i, ema>>
             ELSE /\ pc' = "ema"
                  /\ ema' = zero(Len(p[1]))
                  /\ i' = 1
                  /\ result' = result
  /\ UNCHANGED <<apps, args, calls, log, frames, alone, self, v, centroid, centered, projection>>

\* one pass of the loop of computeVelocityEma
ComputeVelocityEmaStep ==
  /\ pc = "ema" /\ i < Len(path)
  /\ ema' = emaStep(self.alpha, path, i, ema)
  /\ i' = i + 1
  /\ UNCHANGED <<apps, args, calls, log, frames, alone, pc, self, path, v, centroid, centered, projection, result>>

\* computeVelocityEma returns; extrapolate adds, normalizes and returns
MomentumReturn ==
  /\ pc = "ema" /\ ~(i < Len(path))
  /\ LET velocityEma == ema
         lastPosition == path[Len(path)]
         extrapolated == add(lastPosition, velocityEma)
     IN Finish(Return(normalize(extrapolated)))
  /\ UNCHANGED <<apps, args, calls, log, frames, alone, self, path, i, ema, v, centroid, centered, projection>>

\* PCAPathExtrapolator.extrapolate up to the loop of powerIteration
PCAExtrapolate ==
  /\ pc = "ready" /\ self.name = "pca"
  /\ \E p \in {q \in Paths : Representable(q)} :
       /\ path' = p
       /\ LET entry == pcaEnter(p)
          IN IF entry.ends
             THEN /\ Finish(entry.outcome)
                  /\ UNCHANGED <<i, v, centroid, centered>>
             ELSE LET c == mean(p).value
                      x == [k \in 1..Len(p) |-> subtract(p[k], c)]
                  IN /\ centroid' = c
                     /\ centered' = x
                     /\ v' = normalize(x[1])
                     /\ i' = 0
                     /\ pc' = "power"
                     /\ result' = result
  /\ UNCHANGED <<apps, args, calls, log, frames, alone, self, ema, projection>>

\* one round of powerIteration
PowerIterationRound ==
  /\ pc = "power" /\ powerLoopGuard(centered, v, i)
  /\ v' = powerRound(centered, v)
  /\ i' = i + 1
  /\ UNCHANGED <<apps, args, calls, log, frames, alone, pc, self, path, ema, centroid, centered, projection, result>>

\* powerIteration returns; extrapolate projects, adds, normalizes and returns
PCAReturn ==
  /\ pc = "power" /\ ~powerLoopGuard(centered, v, i)
  /\ LET principalAxis == v
         proj == computeWeightedProjection(self, centered, principalAxis)
     IN /\ projection' = proj
        /\ Finish(Return(normalize(pcaTarget(self, centroid, principalAxis, proj))))
  /\ UNCHANGED <<apps, args, calls, log, frames, alone, self, path, i, ema, v, centroid, centered>>

Next ==
  \/ NewLast
  \/ NewMomentum
  \/ NewCentroid
  \/ NewPCA
  \/ GetExtrapolator
  \/ LastExtrapolate
  \/ CentroidExtrapolate
  \/ MomentumExtrapolate
  \/ ComputeVelocityEmaStep
  \/ MomentumReturn
  \/ PCAExtrapolate
  \/ PowerIterationRound
  \/ PCAReturn

Spec == Init /\ [][Next]_vars

\* the PCA strategy alone: its construction, its lookup and its call
PCANext ==
  \/ NewPCA
  \/ GetExtrapolator
  \/ PCAExtrapolate
  \/ PowerIterationRound
  \/ PCAReturn

PCASpec == Init /\ [][PCANext]_vars

\* --------------------------------------- constructors and registry lookup
\* a parameter's value: the k-th argument, or its default when not passed
argOr(given, k, default) == IF Len(given) >= k THEN given[k] ELSE default

\* constructor(alpha = 0.6)
momentumDefaults == <<Rat(3, 5)>>

\* the PCA constructor's defaults taken from the registry's table
pcaDefaults_registry == <<Rat(3, 2), 15, Rat(4, 5)>>

\* constructor(extrapolationFactor = 1.5, projectionWindow = 1, decayFactor = 0.6)
pcaDefaults == <<Rat(3, 2), 1, Rat(3, 5)>>

\* new C(...given): the instance, or the constructor's Error
ConstructWith(call, given, made) ==
  /\ pc = "start"
  /\ args' = [call |-> call, given |-> given]
  /\ IF made.threw
     THEN pc' = "ctor_threw" /\ result' = made /\ self' = self
     ELSE pc' = "ready" /\ self' = made.value /\ result' = result
  /\ UNCHANGED <<apps, calls, log, frames, alone, path, i, ema, v, centroid,
                 centered, projection>>

NewLastWith == ConstructWith("new LastPathExtrapolator", <<>>, LastPathExtrapolator)

NewCentroidWith ==
  ConstructWith("new CentroidPathExtrapolator", <<>>, CentroidPathExtrapolator)

NewMomentumWith ==
  \E given \in MomentumGiven :
    ConstructWith("new MomentumPathExtrapolator", given,
                  MomentumPathExtrapolator(argOr(given, 1, momentumDefaults[1])))

NewPCAWith ==
  \E given \in PCAGiven :
    ConstructWith("new PCAPathExtrapolator", given,
                  PCAPathExtrapolator(argOr(given, 1, pcaDefaults[1]),
                                      argOr(given, 2, pcaDefaults[2]),
                                      argOr(given, 3, pcaDefaults[3])))

\* getExtrapolator(name) for any string; the function has no throw
LookUp ==
  /\ pc = "start"
  /\ \E name \in LookupNames :
       /\ args' = [call |-> "getExtrapolator", given |-> <<name>>]
       /\ result' = Return(getExtrapolator(name))
  /\ pc' = "looked_up"
  /\ UNCHANGED <<apps, self, calls, log, frames, alone, path, i, ema, v, centroid,
                 centered, projection>>

SetupNext ==
  \/ NewLastWith
  \/ NewCentroidWith
  \/ NewMomentumWith
  \/ NewPCAWith
  \/ LookUp
  \/ MomentumExtrapolate
  \/ ComputeVelocityEmaStep
  \/ MomentumReturn

SetupSpec == Init /\ [][SetupNext]_vars

\* ------------------------------------------------------ vector operations
\* a vector operation is called and returns
Apply(call, given, value) ==
  /\ pc = "start"
  /\ args' = [call |-> call, given |-> given]
  /\ result' = Return(value)
  /\ pc' = "applied"
  /\ UNCHANGED <<apps, self, calls, log, frames, alone, path, i, ema, v, centroid,
                 centered, projection>>

ApplyAdd ==
  /\ pc = "start"
  /\ \E a \in AlgVecs, b \in AlgVecs : Apply("add", <<a, b>>, add(a, b))

ApplySubtract ==
  /\ pc = "start"
  /\ \E a \in AlgVecs, b \in AlgVecs :
       Apply("subtract", <<a, b>>, subtract(a, b))

ApplyNormalize ==
  /\ pc = "start"
  /\ \E x \in AlgVecs : Apply("normalize", <<x>>, normalize(x))

AlgebraNext ==
  \/ ApplyAdd
  \/ ApplySubtract
  \/ ApplyNormalize

AlgebraSpec == Init /\ [][AlgebraNext]_vars

\* ------------------------------------------------------ GET /api/similar
\* what a step of the route leaves alone
ServerOnly == UNCHANGED <<core, rng, ui, scroll, store>>

Respond(status) == [server EXCEPT !.pc = "responded", !.status = status]

\* the handler from the request to its first await: the parameters are
\* parsed (number throws outside the try block: the server answers 500)
SimilarGet ==
  /\ server.pc = "idle"
  /\ \E idParam \in IdParams, limitParam \in LimitParams :
       LET idList == parseIdList(idParam)
           limit == number(orElse(limitParam, <<"4", "0">>))
           got == [server EXCEPT !.id = idParam, !.limit = limitParam,
                                 !.idList = idList]
       IN IF limit.threw
          THEN server' = [got EXCEPT !.pc = "responded", !.status = 500,
                                     !.thrown = TRUE]
          ELSE IF Len(idList) = 0
          THEN server' = [got EXCEPT !.pc = "responded", !.status = 400]
          ELSE server' = [got EXCEPT !.pc = "selecting"]
  /\ ServerOnly

\* the first query returns its rows, in the order the database chose; the
\* handler orders the path, extrapolates and starts the second query
SelectReturns ==
  /\ server.pc = "selecting"
  /\ \E pathResults \in Orders(selectPath(server.idList)) :
       LET ordered == orderedPath(server.idList, pathResults)
           got == [server EXCEPT !.pathResults = pathResults]
       IN IF Len(ordered) = 0
          THEN server' = [got EXCEPT !.pc = "responded", !.status = 404]
          ELSE \E pathEmbeddings \in {[k \in 1..Len(ordered) |-> ordered[k].embedding]} :
                 \E targetEmbedding \in
                      {extrapolate(getExtrapolator(DEFAULT_EXTRAPOLATOR),
                                   pathEmbeddings)} :
                   server' =
                     [got EXCEPT
                        !.called = TRUE, !.path = pathEmbeddings,
                        !.target = targetEmbedding,
                        !.source = [k \in 1..Len(ordered) |-> ordered[k].id],
                        !.pc = IF targetEmbedding.threw THEN "responded"
                               ELSE "searching",
                        !.caught = targetEmbedding.threw,
                        !.status = IF targetEmbedding.threw THEN 500 ELSE 0]
  /\ ServerOnly

\* a query rejects: the catch block answers 500
QueryFails ==
  /\ server.pc \in {"selecting", "searching"}
  /\ server' = [Respond(500) EXCEPT !.caught = TRUE]
  /\ ServerOnly

\* the second query returns: the response carries the path's ids in order,
\* the strategy's name and the images found
SearchReturns ==
  /\ server.pc = "searching"
  /\ server' = [Respond(200) EXCEPT
                  !.results = selectSimilar(server.idList, server.target.value)]
  /\ ServerOnly

ServerNext ==
  \/ SimilarGet
  \/ SelectReturns
  \/ QueryFails
  \/ SearchReturns

ServerSpec == Init /\ [][ServerNext]_vars

\* ---------------------------------------------- generateEmbeddingFromSeed
RandomOnly == UNCHANGED <<core, server, ui, scroll, store>>

\* GET /api/random?seed=...: the embedding's generation starts
GenerateEmbeddingFromSeed ==
  /\ rng.pc = "idle"
  /\ \E seed \in Seeds :
       rng' = [pc |-> "drawing", given |-> seed, seed |-> seed, i |-> 0,
               last |-> 0]
  /\ RandomOnly

\* one pass of the first loop: embedding[i] = rng.next() * 2 - 1
DrawComponent ==
  /\ rng.pc = "drawing" /\ rng.i < embeddingDimensions
  /\ \E after \in {nextSeed(rng.seed)} :
       rng' = [rng EXCEPT !.seed = after, !.last = component(after),
                          !.i = rng.i + 1]
  /\ RandomOnly

\* the loop ends; the division by the magnitude that follows is a
\* floating-point computation outside the model
ComponentsDrawn ==
  /\ rng.pc = "drawing" /\ ~(rng.i < embeddingDimensions)
  /\ rng' = [rng EXCEPT !.pc = "drawn"]
  /\ RandomOnly

RandomNext ==
  \/ GenerateEmbeddingFromSeed
  \/ DrawComponent
  \/ ComponentsDrawn

RandomSpec == Init /\ [][RandomNext]_vars

\* ------------------------------------------------- App: editing the path
PageOnly == UNCHANGED <<core, server, rng, scroll, store>>

\* the page is opened at a URL: nuqs reads the three query parameters
OpenPage ==
  /\ ui.pc = "idle"
  /\ \E idParam \in IdParams, seedParam \in QuerySeeds, textParam \in QueryTexts :
       ui' = [NoPage EXCEPT !.pc = "shown", !.id = idParam,
                            !.seed = seedParam, !.text = textParam]
  /\ PageOnly

\* setQuery(query) of a path edit, made while the id list was numbers
Edited(query, numbers, handler) ==
  /\ ui' = [pc |-> "edited", id |-> query.id, seed |-> query.seed,
            text |-> query.text, previous |-> numbers, handler |-> handler]
  /\ PageOnly

PathEndHere ==
  /\ ui.pc \in {"shown", "edited"}
  /\ \E index \in 0..(Len(appIdList(ui.id)) - 1) :
       Edited(handlePathEndHere(appIdList(ui.id), index), appIdList(ui.id),
              "endHere")

PathStartHere ==
  /\ ui.pc \in {"shown", "edited"}
  /\ \E index \in 0..(Len(appIdList(ui.id)) - 1) :
       Edited(handlePathStartHere(appIdList(ui.id), index),
              appIdList(ui.id), "startHere")

PathSolo ==
  /\ ui.pc \in {"shown", "edited"}
  /\ \E index \in 0..(Len(appIdList(ui.id)) - 1) :
       Edited(handlePathSolo(appIdList(ui.id), index), appIdList(ui.id),
              "solo")

PathRemove ==
  /\ ui.pc \in {"shown", "edited"}
  /\ \E index \in 0..(Len(appIdList(ui.id)) - 1) :
       Edited(handlePathRemove(appIdList(ui.id), index), appIdList(ui.id),
              "remove")

ClearPath ==
  /\ ui.pc \in {"shown", "edited"}
  /\ Edited(handleClearPath, appIdList(ui.id), "clear")

PageNext ==
  \/ OpenPage
  \/ PathEndHere
  \/ PathStartHere
  \/ PathSolo
  \/ PathRemove
  \/ ClearPath

PageSpec == Init /\ [][PageNext]_vars

\* --------------------------------------------- useInfiniteScroll's ref
ScrollOnly == UNCHANGED <<core, server, rng, ui, store>>

\* React invokes a sentinelRef closure: with the element when it attaches,
\* with null when it detaches, and with null (the old closure) and then the
\* element (the new one) when enabled has changed
SentinelRef ==
  /\ \E node \in Nodes \cup {NoNode}, enabled \in BOOLEAN :
       /\ (node # NoNode /\ enabled) => Len(scroll.observers) < MaxObservers
       /\ scroll' = [sentinelRef(scroll, node, enabled) EXCEPT
                       !.node = node, !.enabled = enabled,
                       !.invoked = IF scroll.invoked < MaxCalls
                                   THEN scroll.invoked + 1 ELSE scroll.invoked]
  /\ ScrollOnly

\* the browser reports an intersecting target to the observer watching
\* it: the observer's callback calls callbackRef.current()
Intersect ==
  /\ scroll.loads < MaxCalls
  /\ \E k \in DOMAIN scroll.observers :
       /\ scroll.observers[k].observing # {}
       /\ scroll' = [scroll EXCEPT
                       !.loads = scroll.loads + 1,
                       !.unwanted = scroll.unwanted
                                      \/ scroll.node = NoNode \/ ~scroll.enabled]
  /\ ScrollOnly

ScrollNext ==
  \/ SentinelRef
  \/ Intersect

ScrollSpec == Init /\ [][ScrollNext]_vars

\* -------------------------------------------------------- getEmbedding
StoreOnly == UNCHANGED <<core, server, rng, ui, scroll>>

\* a caller calls getEmbedding(imagePath): the key is made and the select
\* is sent
GetEmbedding ==
  \E c \in Callers :
    /\ store.gets[c].at = "idle"
    /\ \E imagePath \in ImagePaths :
         store' = [store EXCEPT
                     !.gets[c] = [NoGet EXCEPT
                        !.at = "select", !.imagePath = imagePath,
                        !.idempotencyKey =
                          generateIdempotencyKey(imagePath, MODEL_NAME)]]
    /\ StoreOnly

\* the select is answered from the table as it is now: a row found is
\* returned, otherwise the embedding is requested
Cached ==
  \E c \in Callers :
    /\ store.gets[c].at = "select"
    /\ store' = [store EXCEPT
                   !.gets[c].at =
                     IF selectByKey(store.rows, store.gets[c].idempotencyKey) # {}
                     THEN "cached" ELSE "fetch"]
    /\ StoreOnly

\* fetchImageEmbedding resolves: the insert is sent
Fetched ==
  \E c \in Callers :
    /\ store.gets[c].at = "fetch"
    /\ store' = [store EXCEPT !.gets[c].at = "insert"]
    /\ StoreOnly

\* fetchImageEmbedding rejects (the embedding service answered an error)
FetchFails ==
  \E c \in Callers :
    /\ store.gets[c].at = "fetch"
    /\ store' = [store EXCEPT !.gets[c].at = "threw", !.gets[c].failed = "fetch"]
    /\ StoreOnly

\* the database runs the insert: the row is stored and the call returns,
\* or the unique constraint rejects it and the call rejects
Inserted ==
  \E c \in Callers :
    /\ store.gets[c].at = "insert"
    /\ LET done == insert(store.rows,
                          [idempotencyKey |-> store.gets[c].idempotencyKey,
                           filename |-> store.gets[c].imagePath,
                           model |-> MODEL_NAME])
       IN IF done.threw
          THEN store' = [store EXCEPT !.gets[c].at = "threw",
                                      !.gets[c].failed = "insert"]
          ELSE store' = [store EXCEPT !.gets[c].at = "saved",
                                      !.rows = done.value]
    /\ StoreOnly

\* a call that has ended leaves; its caller may call again
Settled ==
  \E c \in Callers :
    /\ store.gets[c].at \in {"cached", "saved", "threw"}
    /\ store' = [store EXCEPT !.gets[c] = NoGet]
    /\ StoreOnly

StoreNext ==
  \/ GetEmbedding
  \/ Cached
  \/ Fetched
  \/ FetchFails
  \/ Inserted
  \/ Settled

StoreSpec == Init /\ [][StoreNext]_vars

\* ------------------------------------- the centroid in rounded arithmetic
CentroidExtrapolateFl ==
  /\ pc = "ready" /\ self.name = "centroid"
  /\ \E p \in FlPaths :
       /\ path' = p
       /\ Finish(centroidExtrapolateFl(p))
  /\ UNCHANGED <<apps, args, calls, log, frames, alone, self, i, ema, v, centroid, centered, projection>>

RoundedNext ==
  \/ NewCentroid
  \/ CentroidExtrapolateFl

RoundedSpec == Init /\ [][RoundedNext]_vars

\* ------------------------------------------ callers sharing one instance
\* what extrapolate returns for each registered strategy and path when the
\* call runs alone
AloneTable ==
  {<<name, p, extrapolate(extrapolators[name], p)>> :
     name \in ExtrapolatorName, p \in CallPaths}

Alone(name, p) == (CHOOSE t \in alone : t[1] = name /\ t[2] = p)[3]

\* all callers' activations sharing one set of locals
frameOf_shared(c) == "A"

\* the activation record holding the locals (let / const) of caller c's call
frameOf(c) == c

Local(c) == frames[frameOf(c)]

SetLocal(c, frame) == frames' = [frames EXCEPT ![frameOf(c)] = frame]

\* caller c's call starts on path p and stands at position at
Begin(c, p, at, outcome) ==
  /\ calls' = [calls EXCEPT ![c] =
                [pc |-> at, path |-> p, input |-> p, result |-> outcome,
                 met |-> \E d \in Callers \ {c} :
                           calls[d].pc \in {"ema", "power"}]]
  /\ log' = [log EXCEPT !.started = log.started + 1]

\* caller c may start a call
CanCall(c) ==
  pc = "ready" /\ calls[c].pc = "idle" /\ log.started < MaxCalls

\* computeVelocityEma's locals kept from the activation before
computeVelocityEmaLocals_kept(frame, dimensions) ==
  IF frame.ema = <<>> THEN [frame EXCEPT !.ema = zero(dimensions), !.i = 1]
  ELSE frame

\* computeVelocityEma declares ema and the loop index
computeVelocityEmaLocals(frame, dimensions) ==
  [frame EXCEPT !.ema = zero(dimensions), !.i = 1]

\* caller c's call returns or throws
CallFinish(c, outcome) ==
  /\ calls' = [calls EXCEPT ![c].pc = "done", ![c].result = outcome]
  /\ UNCHANGED log

\* what a caller's step leaves alone: the instance and the single-call state
Shared ==
  UNCHANGED <<apps, pc, self, path, i, ema, v, centroid, centered, projection,
              result, args, alone>>

CallLast(c) ==
  /\ CanCall(c) /\ self.name = "last"
  /\ \E p \in CallPaths : Begin(c, p, "done", lastExtrapolate(p))
  /\ UNCHANGED frames
  /\ Shared

CallCentroid(c) ==
  /\ CanCall(c) /\ self.name = "centroid"
  /\ \E p \in CallPaths : Begin(c, p, "done", centroidExtrapolate(p))
  /\ UNCHANGED frames
  /\ Shared

CallMomentum(c) ==
  /\ CanCall(c) /\ self.name = "momentum"
  /\ \E p \in CallPaths :
       LET entry == momentumEnter(p)
       IN IF entry.ends
          THEN Begin(c, p, "done", entry.outcome) /\ UNCHANGED frames
          ELSE /\ Begin(c, p, "ema", NoCall.result)
               /\ SetLocal(c, computeVelocityEmaLocals(Local(c), Len(p[1])))
  /\ Shared

CallEmaStep(c) ==
  /\ calls[c].pc = "ema" /\ Local(c).i < Len(calls[c].path)
  /\ SetLocal(c, [Local(c) EXCEPT
                    !.ema = emaStep(self.alpha, calls[c].path, Local(c).i,
                                    Local(c).ema),
                    !.i = Local(c).i + 1])
  /\ UNCHANGED <<calls, log>>
  /\ Shared

CallMomentumReturn(c) ==
  /\ calls[c].pc = "ema" /\ ~(Local(c).i < Len(calls[c].path))
  /\ LET velocityEma == Local(c).ema
         lastPosition == calls[c].path[Len(calls[c].path)]
     IN CallFinish(c, Return(normalize(add(lastPosition, velocityEma))))
  /\ UNCHANGED frames
  /\ Shared

CallPCA(c) ==
  /\ CanCall(c) /\ self.name = "pca"
  /\ \E p \in CallPaths :
       LET entry == pcaEnter(p)
       IN IF entry.ends
          THEN Begin(c, p, "done", entry.outcome) /\ UNCHANGED frames
          ELSE LET m == mean(p).value
                   x == [k \in 1..Len(p) |-> subtract(p[k], m)]
               IN /\ Begin(c, p, "power", NoCall.result)
                  /\ SetLocal(c, [Local(c) EXCEPT !.centroid = m,
                                                  !.centered = x,
                                                  !.v = normalize(x[1]),
                                                  !.i = 0])
  /\ Shared

CallPowerRound(c) ==
  /\ calls[c].pc = "power"
  /\ powerLoopGuard(Local(c).centered, Local(c).v, Local(c).i)
  /\ SetLocal(c, [Local(c) EXCEPT
                    !.v = powerRound(Local(c).centered, Local(c).v),
                    !.i = Local(c).i + 1])
  /\ UNCHANGED <<calls, log>>
  /\ Shared

CallPCAReturn(c) ==
  /\ calls[c].pc = "power"
  /\ ~powerLoopGuard(Local(c).centered, Local(c).v, Local(c).i)
  /\ LET principalAxis == Local(c).v
         proj == computeWeightedProjection(self, Local(c).centered,
                                           principalAxis)
     IN /\ SetLocal(c, [Local(c) EXCEPT !.projection = proj])
        /\ CallFinish(c, Return(normalize(
              pcaTarget(self, Local(c).centroid, principalAxis, proj))))
  /\ Shared

\* caller c, its call over, gets ready to call again; what it got is kept
CallAgain(c) ==
  /\ calls[c].pc = "done" /\ log.started < MaxCalls
  /\ calls' = [calls EXCEPT ![c].pc = "idle"]
  /\ log' = [log EXCEPT !.got = @ \cup {<<calls[c].input, calls[c].result>>}]
  /\ UNCHANGED frames
  /\ Shared

SharedNext ==
  \/ GetExtrapolator
  \/ \E c \in Callers : CallAgain(c)
  \/ \E c \in Callers : CallLast(c)
  \/ \E c \in Callers : CallCentroid(c)
  \/ \E c \in Callers : CallMomentum(c)
  \/ \E c \in Callers : CallEmaStep(c)
  \/ \E c \in Callers : CallMomentumReturn(c)
  \/ \E c \in Callers : CallPCA(c)
  \/ \E c \in Callers : CallPowerRound(c)
  \/ \E c \in Callers : CallPCAReturn(c)

\* the instance's callers start with the outcomes of the calls run alone at hand
SharedInit == Fresh /\ alone = AloneTable

SharedSpec == SharedInit /\ [][SharedNext]_vars

\* ------------------------------------------------------------ properties
Done(name) == pc = "done" /\ self.name = name

\* the sum of q[k] over k in 1..n
RECURSIVE Sigma(_, _)
Sigma(q, n) == IF n = 0 THEN Zero ELSE SAdd(Sigma(q, n - 1), q[n])

\* the arithmetic mean of a non-empty path, component by component
MeanOf(p) ==
  [d \in 1..Len(p[1]) |->
     SDiv(Sigma([k \in 1..Len(p) |-> p[k][d]], Len(p)), Num(Len(p)))]

\* the Euclidean length of x is 1
IsUnit(x) == Sigma([d \in 1..Len(x) |-> SMul(x[d], x[d])], Len(x)) = One

IsZeroVector(x) == \A d \in 1..Len(x) : x[d] = Zero

\* x divided by its length, x not the zero vector
UnitOf(x) ==
  LET len == SSqrt(Sigma([d \in 1..Len(x) |-> SMul(x[d], x[d])], Len(x)))
  IN [d \in 1..Len(x) |-> SDiv(x[d], len)]

\* normalize as the spec defines it
NormalizeOf(x) == IF IsZeroVector(x) THEN x ELSE UnitOf(x)

\* the dot product of x and y
DotOf(x, y) == Sigma([d \in 1..Len(x) |-> SMul(x[d], y[d])], Len(x))

\* x + y * s
PlusScaled(x, y, s) == [d \in 1..Len(x) |-> SAdd(x[d], SMul(y[d], s))]

\* the k-th velocity of path p, k in 1..Len(p)-1
VelocityOf(p, k) == [d \in 1..Len(p[k]) |-> SSub(p[k + 1][d], p[k][d])]

\* the velocities 1..k of p folded into their exponential moving average
RECURSIVE EmaOf(_, _, _)
EmaOf(alpha, p, k) ==
  IF k = 1 THEN VelocityOf(p, 1)
  ELSE LET prev == EmaOf(alpha, p, k - 1)
           vel == VelocityOf(p, k)
       IN [d \in 1..Len(vel) |->
             SAdd(SMul(alpha, vel[d]), SMul(SSub(One, alpha), prev[d]))]

\* the path centered on its mean
CenteredOf(p) ==
  LET c == MeanOf(p) IN [k \in 1..Len(p) |-> PlusScaled(p[k], c, Num(-1))]

\* one round of power iteration: normalize(sum_k dot(x_k, u) * x_k)
RoundOf(x, u) ==
  NormalizeOf([d \in 1..Len(u) |->
                 Sigma([k \in 1..Len(x) |-> SMul(DotOf(x[k], u), x[k][d])],
                       Len(x))])

\* the direction after k rounds from normalize(x[1])
RECURSIVE IterOf(_, _)
IterOf(x, k) ==
  IF k = 0 THEN NormalizeOf(x[1])
  ELSE CHOOSE r \in {RoundOf(x, u) : u \in {IterOf(x, k - 1)}} : TRUE

\* the mean of dot(x_k, axis) over the last min(window, n) points of x,
\* the point at distance k from the end weighted decay^k
ProjectionOf(window, decay, x, axis) ==
  LET n == Len(x)
      w == Min(window, n)
      weighted == [k \in 1..w |->
                     SMul(SPow(decay, k - 1), DotOf(x[n - (k - 1)], axis))]
      weights == [k \in 1..w |-> SPow(decay, k - 1)]
  IN SDiv(Sigma(weighted, w), Sigma(weights, w))

\* x with its first k points replaced by the zero vector
ZeroedBefore(x, k) ==
  [j \in 1..Len(x) |-> IF j <= k THEN zero(Len(x[j])) ELSE x[j]]

Renormalizing == {"momentum", "centroid", "pca"}

\* the vector the finished call handed to its final normalize
BeforeNormalize ==
  IF self.name = "momentum"
  THEN PlusScaled(path[Len(path)], EmaOf(self.alpha, path, Len(path) - 1), One)
  ELSE IF self.name = "pca" /\ Len(path) >= 3
  THEN PlusScaled(centroid, v, SMul(projection, self.extrapolationFactor))
  ELSE MeanOf(path)

\* the first centered point of a PCA call is the zero vector
ZeroSeed == self.name = "pca" /\ Len(path) >= 3 /\ IsZeroVector(centered[1])

\* ------------------------------------------------------------------ claims
\* C1: every strategy's extrapolate, called with an empty path, throws the
\* empty-path Error and returns no vector
C1_EmptyPathThrows ==
  (pc = "done" /\ Len(path) = 0) =>
    /\ result.threw
    /\ result.error = "Path cannot be empty"
    /\ result.value = <<>>

C1_Witness == Done("pca") /\ Len(path) = 0 /\ result.threw

\* C2: Momentum extrapolate of n >= 2 points returns
\* normalize(path[n-1] + ema), ema the fold of the velocities seeded with the
\* first and updated by alpha * v_i + (1 - alpha) * ema
C2_MomentumIsNormalizedEma ==
  /\ (pc = "ema" /\ i >= 2) => ema = EmaOf(self.alpha, path, i - 1)
  /\ (Done("momentum") /\ Len(path) >= 2) =>
       result = Return(NormalizeOf(
                  PlusScaled(path[Len(path)],
                             EmaOf(self.alpha, path, Len(path) - 1), One)))

C2_Witness ==
  /\ Done("momentum") /\ Len(path) = 3
  /\ self.alpha = Rat(3, 5)
  /\ VelocityOf(path, 1) # VelocityOf(path, 2)
  /\ ~IsZeroVector(VelocityOf(path, 1))
  /\ ~IsZeroVector(result.value)
  /\ result.value[1].r # 1

\* C3: PCA extrapolate of n >= 3 points returns
\* normalize(centroid + axis * (projection * extrapolationFactor)) with
\* centroid the mean of the path, axis the power-iteration result over the
\* centered points and projection their weighted projection, the factor
\* taken with its sign and magnitude
C3_PCATarget ==
  (Done("pca") /\ Len(path) >= 3) =>
    \E x \in {CenteredOf(path)} :
      \E axis \in {IterOf(x, iterations)} :
        \E proj \in {ProjectionOf(self.projectionWindow, self.decayFactor,
                                  x, axis)} :
          result = Return(NormalizeOf(
                     PlusScaled(MeanOf(path), axis,
                                SMul(proj, self.extrapolationFactor))))

C3_Witness ==
  /\ Done("pca") /\ Len(path) = 3
  /\ self.extrapolationFactor = Num(-1)
  /\ projection # Zero
  /\ ~IsZeroVector(centroid)
  /\ ~IsZeroVector(result.value)
  /\ result.value[1] # Zero /\ result.value[2] # Zero

\* C4: the weighted projection is the weighted mean (weighted sum over total
\* weight) of dot(centered point, axis) over the last min(projectionWindow, n)
\* points, weight decayFactor^k at distance k from the end; the points
\* before the window do not influence it
C4_WeightedProjection ==
  (Done("pca") /\ Len(path) >= 3) =>
    LET w == Min(self.projectionWindow, Len(centered))
    IN /\ projection =
            ProjectionOf(self.projectionWindow, self.decayFactor, centered, v)
       /\ projection =
            computeWeightedProjection(
              self, ZeroedBefore(centered, Len(centered) - w), v)

C4_Witness ==
  /\ Done("pca") /\ Len(path) = 3
  /\ self.projectionWindow = 2
  /\ DotOf(centered[1], v) # Zero
  /\ DotOf(centered[2], v) # DotOf(centered[3], v)
  /\ projection # Zero
  /\ projection # DotOf(centered[3], v)

\* C5: power iteration starts from normalize(centered[0]) and runs exactly 50
\* rounds of v <- normalize(sum_i dot(x_i, v) * x_i): below 50 rounds the
\* loop condition holds and the call cannot return yet, at 50 the loop
\* condition fails, no further round can run and v is the 50th iterate
C5_FiftyRounds ==
  /\ (pc = "power") =>
       /\ i \in 0..50
       /\ (i = 0) => v = NormalizeOf(centered[1])
       /\ (i < 50) => powerLoopGuard(centered, v, i) /\ ~(ENABLED PCAReturn)
       /\ (i = 50) =>
            /\ ~powerLoopGuard(centered, v, i)
            /\ ~(ENABLED PowerIterationRound)
            /\ v = IterOf(centered, 50)
  /\ (Done("pca") /\ Len(path) >= 3) => i = 50

C5_Witness ==
  /\ pc = "power" /\ i = 50
  /\ ~IsZeroVector(v)
  /\ v[1] # Zero /\ v[2] # Zero

\* C6: PCA extrapolate of one or two points returns normalize(mean(path)); no
\* power iteration round and no projection is performed
C6_PCAFallback ==
  /\ (Done("pca") /\ Len(path) \in 1..2) =>
       /\ result = Return(NormalizeOf(MeanOf(path)))
       /\ i = 0 /\ v = <<>> /\ centered = <<>> /\ projection = Zero
  /\ (pc = "power") => Len(path) >= 3

C6_Witness ==
  /\ Done("pca") /\ Len(path) = 2
  /\ path[1] # path[2]
  /\ self.projectionWindow = 2
  /\ ~IsZeroVector(result.value)
  /\ result.value[1].r # 1

\* C7: Centroid extrapolate of a non-empty path returns normalize(mean(path)),
\* mean being the component-wise sum of the vectors divided by their number
C7_CentroidIsNormalizedMean ==
  (Done("centroid") /\ Len(path) >= 1) =>
    result = Return(NormalizeOf(MeanOf(path)))

C7_Witness ==
  /\ Done("centroid") /\ Len(path) = 3
  /\ path[1] # path[2] /\ path[2] # path[3] /\ path[1] # path[3]
  /\ ~IsZeroVector(result.value)

\* C8: Last extrapolate of a non-empty path returns its final element,
\* component for component, whatever the earlier elements, not normalized
C8_LastReturnsFinalElement ==
  (Done("last") /\ Len(path) >= 1) =>
    /\ ~result.threw
    /\ Len(result.value) = Len(path[Len(path)])
    /\ \A d \in 1..Len(result.value) : result.value[d] = path[Len(path)][d]

C8_Witness ==
  /\ Done("last") /\ Len(path) = 3
  /\ path[1] # path[3] /\ path[2] # path[3]
  /\ ~IsUnit(path[3]) /\ ~IsZeroVector(path[3])
  /\ result.value = path[3]

\* C9: Momentum extrapolate of a single point returns that point unchanged,
\* not renormalized and with no velocity computed, for every alpha
C9_MomentumSinglePoint ==
  (Done("momentum") /\ Len(path) = 1) =>
    /\ result = Return(path[1])
    /\ i = 0 /\ ema = <<>>

C9_Witness ==
  /\ Done("momentum") /\ Len(path) = 1
  /\ self.alpha = Rat(1, 2)
  /\ ~IsUnit(path[1]) /\ ~IsZeroVector(path[1])
  /\ result.value = path[1]

\* C10 as stated: Momentum, PCA and Centroid return a unit-length vector
\* whenever every vector of the non-empty path is non-zero, PCA's zero seed
\* excepted
C10_UnitForNonZeroInputs ==
  (/\ pc = "done" /\ self.name \in Renormalizing
   /\ Len(path) >= 1
   /\ \A k \in 1..Len(path) : ~IsZeroVector(path[k])
   /\ ~ZeroSeed) =>
    /\ ~result.threw
    /\ IsUnit(result.value)

\* C10, amended: Centroid and PCA on a non-empty path and Momentum on two or
\* more points return a unit-length vector exactly when the vector handed to
\* the final normalize is not the zero vector, and that zero vector when it
\* is; Momentum on a single point returns the point with its own length
C10_UnitUnlessZeroBeforeNormalize ==
  (pc = "done" /\ self.name \in Renormalizing /\ Len(path) >= 1) =>
    /\ ~result.threw
    /\ IF self.name = "momentum" /\ Len(path) = 1
       THEN result.value = path[1]
       ELSE \E before \in {BeforeNormalize} :
              IF IsZeroVector(before)
              THEN result.value = before
              ELSE IsUnit(result.value)

C10_Witness ==
  /\ Done("momentum") /\ Len(path) = 3
  /\ \A k \in 1..Len(path) : ~IsZeroVector(path[k])
  /\ ~IsZeroVector(BeforeNormalize)
  /\ IsUnit(result.value)
  /\ result.value[1].r # 1

\* C11 as stated: every strategy returns the single point of a one-point
\* path itself
C11_SinglePointIsReturned ==
  (pc = "done" /\ Len(path) = 1) => result = Return(path[1])

\* C11, amended: on a one-point path Last and Momentum return the point
\* itself; Centroid and PCA return normalize of the point, which is the point
\* itself exactly when its length is 1 or it is the zero vector
C11_SinglePointOrItsUnit ==
  (pc = "done" /\ Len(path) = 1) =>
    IF self.name \in {"last", "momentum"}
    THEN result = Return(path[1])
    ELSE /\ result = Return(NormalizeOf(path[1]))
         /\ (result.value = path[1]) <=>
              (IsUnit(path[1]) \/ IsZeroVector(path[1]))

C11_Witness ==
  /\ Done("centroid") /\ Len(path) = 1
  /\ ~IsUnit(path[1]) /\ ~IsZeroVector(path[1])
  /\ result.value # path[1]
  /\ IsUnit(result.value)

\* what the calls on the shared instance have returned so far, with their paths
Got ==
  log.got
    \cup {<<calls[c].input, calls[c].result>> :
            c \in {d \in Callers : calls[d].pc = "done"}}

\* C12: on one instance any two calls with the same path return the same
\* vector, whatever other calls ran before, between or during them, and
\* every call leaves the instance as the registry built it
C12_Deterministic ==
  /\ \A x, y \in Got : x[1] = y[1] => x[2] = y[2]
  /\ (pc = "ready") => self = extrapolators[self.name]

C12_Witness ==
  /\ pc = "ready" /\ self.name = "momentum"
  /\ calls["A"].pc = "done" /\ Len(calls["A"].input) = 3
  /\ log.started = 3
  /\ \E x \in log.got : x[1] = calls["A"].input
  /\ \E x \in log.got : x[1] # calls["A"].input /\ Len(x[1]) = 2
  /\ ~calls["A"].result.threw
  /\ IsUnit(calls["A"].result.value)

\* C13: however the steps of the callers' calls on the shared registered
\* instance interleave, every call returns what the same call returns when
\* run alone, the caller's path is as it was passed and the instance is as
\* the registry built it
C13_AsIfAlone ==
  /\ \A c \in Callers :
       /\ (calls[c].pc = "done") =>
            /\ calls[c].result = Alone(self.name, calls[c].input)
            /\ calls[c].path = calls[c].input
       /\ (calls[c].pc \in {"ema", "power"}) => calls[c].path = calls[c].input
  /\ \A x \in log.got : x[2] = Alone(self.name, x[1])
  /\ (pc = "ready") => self = extrapolators[self.name]

C13_Witness ==
  /\ pc = "ready" /\ self.name = "pca"
  /\ calls["A"].pc = "done" /\ calls["B"].pc = "done"
  /\ calls["A"].met
  /\ Len(calls["A"].input) = 3 /\ Len(calls["B"].input) = 3
  /\ frames["A"].i = 50 /\ frames["B"].i = 50
  /\ IsUnit(calls["A"].result.value)

\* C14: looking up a name that is not a registered strategy fails with an
\* error and returns no value
C14_UnknownNameFails ==
  (pc = "looked_up" /\ args.given[1] \notin {"last", "momentum", "centroid", "pca"}) =>
    result.threw

\* C15: the registry's keys are exactly last, momentum, centroid and pca, the
\* instance under each key carries the key as its name (so a lookup by a key
\* returns the instance of that name), and the default name is a key
C15_RegistryNames ==
  /\ DOMAIN extrapolators = {"last", "momentum", "centroid", "pca"}
  /\ \A k \in DOMAIN extrapolators : extrapolators[k].name = k
  /\ DEFAULT_EXTRAPOLATOR \in DOMAIN extrapolators
  /\ (pc = "looked_up" /\ args.given[1] \in DOMAIN extrapolators) =>
       /\ ~result.threw
       /\ result.value.name = args.given[1]

C15_Witness ==
  /\ pc = "looked_up"
  /\ args.given = <<DEFAULT_EXTRAPOLATOR>>
  /\ result.value.name = "pca"

\* C16 as stated: a PCA strategy constructed with no arguments has the
\* parameters (1.5, 15, 0.8) of the registry's pca entry
C16_DefaultsAreRegistrys ==
  (pc = "ready" /\ args = [call |-> "new PCAPathExtrapolator", given |-> <<>>]) =>
    /\ self.extrapolationFactor = Rat(3, 2)
    /\ self.projectionWindow = 15
    /\ self.decayFactor = Rat(4, 5)
    /\ self = extrapolators.pca

\* C16, amended: a PCA strategy constructed with no arguments has the
\* parameters (1.5, 1, 0.6); the registry's pca entry has (1.5, 15, 0.8),
\* passed explicitly, and the two agree in extrapolationFactor only
C16_DefaultsAreOwn ==
  (pc = "ready" /\ args = [call |-> "new PCAPathExtrapolator", given |-> <<>>]) =>
    /\ self = [name |-> "pca", extrapolationFactor |-> Rat(3, 2),
               projectionWindow |-> 1, decayFactor |-> Rat(3, 5)]
    /\ extrapolators.pca =
         [name |-> "pca", extrapolationFactor |-> Rat(3, 2),
          projectionWindow |-> 15, decayFactor |-> Rat(4, 5)]
    /\ self.extrapolationFactor = extrapolators.pca.extrapolationFactor
    /\ self.projectionWindow # extrapolators.pca.projectionWindow
    /\ self.decayFactor # extrapolators.pca.decayFactor

C16_Witness ==
  /\ pc = "ready"
  /\ args = [call |-> "new PCAPathExtrapolator", given |-> <<>>]
  /\ self.name = "pca"
  /\ self # extrapolators.pca

\* C17: constructing Momentum fails for alpha <= 0 and for alpha >= 1 and
\* succeeds strictly between, so that no extrapolate call runs on an instance
\* whose alpha is outside (0, 1)
C17_AlphaInRange ==
  /\ (args.call = "new MomentumPathExtrapolator" /\ Len(args.given) = 1) =>
       LET alpha == args.given[1]
       IN /\ (SLe(alpha, Zero) \/ SLe(One, alpha)) =>
               pc = "ctor_threw" /\ result.threw
          /\ (SLt(Zero, alpha) /\ SLt(alpha, One)) =>
               pc # "ctor_threw" /\ self.alpha = alpha
  /\ (pc \in {"ema", "done"} /\ self.name = "momentum") =>
       SLt(Zero, self.alpha) /\ SLt(self.alpha, One)

C19_Normalize ==
  (pc = "applied" /\ args.call = "normalize") =>
    \E x \in {args.given[1]} :
      \E len \in {SSqrt(Sigma([d \in 1..Len(x) |-> SMul(x[d], x[d])], Len(x)))} :
        /\ ~result.threw
        /\ IF len = Zero
           THEN result.value = x
           ELSE result.value =
                  [d \in 1..Len(x) |-> SMul(x[d], SDiv(One, len))]

C19_Witness ==
  /\ pc = "applied" /\ args.call = "normalize"
  /\ args.given[1] = <<Num(2), Num(-1)>>
  /\ result.value # args.given[1]
  /\ IsUnit(result.value)

\* C20: add(a, b) and subtract(a, b) fail with an error when a and b differ
\* in length, and return the element-wise result when the lengths are equal
C20_MismatchFails ==
  (pc = "applied" /\ args.call \in {"add", "subtract"}) =>
    LET a == args.given[1]
        b == args.given[2]
    IN IF Len(a) # Len(b)
       THEN result.threw
       ELSE /\ ~result.threw
            /\ result.value =
                 [d \in 1..Len(a) |->
                    IF args.call = "add" THEN SAdd(a[d], b[d])
                    ELSE SSub(a[d], b[d])]

\* the path q taken in the order f, a permutation of 1..Len(q)
Reordered(q, f) == [k \in 1..Len(q) |-> q[f[k]]]

C22_TwoPointMomentum ==
  (Done("momentum") /\ Len(path) = 2) =>
    /\ ema = VelocityOf(path, 1)
    /\ result = Return(NormalizeOf(PlusScaled(scale(path[2], Num(2)), path[1], Num(-1))))
    /\ \A alpha \in AlphaArgs :
         LET made == MomentumPathExtrapolator(alpha)
         IN ~made.threw =>
              /\ extrapolate(made.value, path) = result
              /\ extrapolate(made.value,
                             << <<Num(1), Num(0)>>, <<Num(0), Num(1)>> >>)
                   = Return(UnitOf(<<Num(-1), Num(2)>>))

C22_Witness ==
  /\ Done("momentum") /\ Len(path) = 2
  /\ path[1] # path[2]
  /\ self.alpha = Rat(1, 2)
  /\ ~IsZeroVector(path[1]) /\ ~IsZeroVector(path[2])
  /\ IsUnit(result.value)

\* C23: in PCA's power iteration a zero direction stays zero: when v is the
\* zero vector (as it is from the start when centered[0] is zero) every term
\* of Cv, Cv and the next v are zero, in every remaining round; the axis
\* returned is then zero, the projection is 0 and extrapolate returns
\* normalize(centroid) without an error
C23_ZeroDirectionStays ==
  /\ (pc = "power" /\ ZeroSeed) => IsZeroVector(v)
  /\ (pc = "power" /\ IsZeroVector(v)) =>
       /\ \A k \in 1..Len(centered) :
            IsZeroVector(scale(centered[k], dot(centered[k], v)))
       /\ IsZeroVector(powerRound(centered, v))
  /\ (Done("pca") /\ Len(path) >= 3 /\ IsZeroVector(centered[1])) =>
       /\ i = iterations
       /\ IsZeroVector(v)
       /\ projection = Zero
       /\ result = Return(NormalizeOf(MeanOf(path)))

C23_Witness ==
  /\ Done("pca") /\ ZeroSeed
  /\ i = iterations
  /\ \E k \in 1..Len(centered) : ~IsZeroVector(centered[k])
  /\ IsZeroVector(v)
  /\ ~result.threw

\* the axes a power iteration can end on, and others
Axes == Vecs \cup {<<Rat(3, 5), Rat(4, 5)>>}

\* C27: the PCA target does not depend on the sign of the principal axis:
\* with -v for v the projection changes sign and the target
\* centroid + axis * (projection * extrapolationFactor) is the same, for the
\* axis the iteration returned and for any other
C27_AxisSignIrrelevant ==
  (Done("pca") /\ Len(path) >= 3) =>
    /\ \E flipped \in {scale(v, Num(-1))} :
         \E proj \in {computeWeightedProjection(self, centered, flipped)} :
           /\ proj = SNeg(projection)
           /\ pcaTarget(self, centroid, flipped, proj)
                = pcaTarget(self, centroid, v, projection)
           /\ result = Return(normalize(pcaTarget(self, centroid, flipped, proj)))
    /\ \A axis \in Axes :
         pcaTarget(self, centroid, scale(axis, Num(-1)),
                   computeWeightedProjection(self, centered, scale(axis, Num(-1))))
           = pcaTarget(self, centroid, axis,
                       computeWeightedProjection(self, centered, axis))

C27_Witness ==
  /\ Done("pca") /\ Len(path) >= 3
  /\ ~IsZeroVector(v)
  /\ projection # Zero
  /\ self.projectionWindow = 2
  /\ ~IsZeroVector(centroid)

\* the embeddings of the stored images of the configured model among ids,
\* in the order of ids
Resolved(ids) ==
  LET stored == SelectSeq(ids, LAMBDA id :
                  \E r \in Table : r.id = id /\ r.model = MODEL_NAME)
  IN [k \in 1..Len(stored) |->
        (CHOOSE r \in Table : r.id = stored[k]).embedding]

\* text has, from character k on, white space and then an optionally
\* signed digit
RECURSIVE StartsId(_, _)
StartsId(text, k) ==
  /\ k <= Len(text)
  /\ \/ text[k] \in DOMAIN digit
     \/ text[k] \in {"+", "-"} /\ k < Len(text) /\ text[k + 1] \in DOMAIN digit
     \/ text[k] \in WhiteSpace /\ StartsId(text, k + 1)

\* some comma-separated piece of the parameter starts with an integer
AnyIdParses(param) ==
  /\ param.given
  /\ \E k \in 1..Len(param.text) :
       (k = 1 \/ param.text[k - 1] = ",") /\ StartsId(param.text, k)

\* C24: /api/similar never hands extrapolate an empty path; it
\* answers 400 when no id parses from the id parameter and 404 when the
\* lookup finds a stored embedding for none of the ids
C24_EmptyPathNeverReaches ==
  /\ server.called => Len(server.path) >= 1
  /\ (server.pc = "responded" /\ ~AnyIdParses(server.id)) =>
       server.status = 400
  /\ (server.pc = "responded" /\ ~server.caught
      /\ AnyIdParses(server.id) /\ Len(Resolved(server.idList)) = 0) =>
       server.status = 404

\* C25: the path /api/similar hands to extrapolate is the embedding of each
\* id of the request's id list, in request order, a repeated id as often as
\* it is given and an id with no stored embedding left out, in whatever
\* order the database returned the rows; the response lists the same ids
C25_PathInRequestOrder ==
  server.called =>
    /\ server.path = Resolved(server.idList)
    /\ server.source =
         SelectSeq(server.idList, LAMBDA id :
           \E r \in Table : r.id = id /\ r.model = MODEL_NAME)
    /\ \A order \in Orders(selectPath(server.idList)) :
         [k \in 1..Len(orderedPath(server.idList, order)) |->
            orderedPath(server.idList, order)[k].embedding] = server.path

C25_Witness ==
  /\ server.called
  /\ server.idList = <<2, 1, 2>>
  /\ server.pathResults[1].id = 1
  /\ server.path[1] # server.path[2]
  /\ server.status = 200

\* C26: for every integer seed every component rng.next() * 2 - 1 of the
\* seeded embedding lies in [-1, 1]: the SeededRandom's state is in
\* 0..233279 after every call of next
C26_ComponentsInRange ==
  (rng.pc \in {"drawing", "drawn"} /\ rng.i >= 1) =>
    /\ rng.seed \in 0..(modulus - 1)
    /\ -modulus <= rng.last /\ rng.last <= modulus

\* the order-preserving sub-sequences of a sequence, one per set of positions
RECURSIVE Picked(_, _, _)
Picked(numbers, positions, k) ==
  IF k > Len(numbers) THEN <<>>
  ELSE (IF k \in positions THEN <<numbers[k]>> ELSE <<>>)
         \o Picked(numbers, positions, k + 1)

SubSequences(numbers) ==
  {Picked(numbers, positions, 1) : positions \in SUBSET (1..Len(numbers))}

\* C28: after a path edit (End here, Start here, Solo, Remove, Clear) made
\* with an index valid for the id list, the query parameter id is null, with
\* seed 42 and text null, or the comma-join of a non-empty order-preserving
\* sub-sequence of the id list before the edit; it is never the empty string
C28_EditKeepsSubPath ==
  ui.pc = "edited" =>
    /\ ui.id # Str(<<>>)
    /\ \/ ui.id = Null /\ ui.seed = Seed(42) /\ ui.text = Null
       \/ \E kept \in SubSequences(ui.previous) :
            /\ kept # <<>>
            /\ ui.id = Str(join(kept, ","))

C28_Witness ==
  /\ ui.pc = "edited"
  /\ ui.handler = "remove"
  /\ ui.previous = <<1, 2>>
  /\ ui.id = Str(<<"1">>)
  /\ ui.seed = NoSeed

\* the observers of the hook that are connected
Connected == {k \in DOMAIN scroll.observers : scroll.observers[k].observing # {}}

\* C29: after any sequence of sentinelRef invocations at most one
\* IntersectionObserver of the hook is connected, and none when the latest
\* invocation had a null node or enabled = false; onLoadMore is never
\* called in such a state
C29_AtMostOneObserver ==
  /\ Cardinality(Connected) <= 1
  /\ (scroll.invoked > 0 /\ (scroll.node = NoNode \/ ~scroll.enabled)) =>
       Connected = {}
  /\ ~scroll.unwanted

C29_Witness ==
  /\ Len(scroll.observers) = 3
  /\ Connected = {}
  /\ scroll.node # NoNode
  /\ ~scroll.enabled
  /\ scroll.observers[2].target # scroll.observers[3].target
  /\ scroll.loads = 2

\* C30: when two getEmbedding calls with the same key have ended, in
\* whatever order their steps ran, the table holds exactly one row of that
\* key and neither call failed on the insert
C30_IdempotentUnderConcurrency ==
  \A a, b \in Callers :
    ( /\ a # b
      /\ store.gets[a].idempotencyKey = store.gets[b].idempotencyKey
      /\ store.gets[a].at \in {"cached", "saved", "threw"}
      /\ store.gets[b].at \in {"cached", "saved", "threw"}
      /\ store.gets[a].failed # "fetch" /\ store.gets[b].failed # "fetch" ) =>
      /\ Cardinality(selectByKey(store.rows, store.gets[a].idempotencyKey)) = 1
      /\ store.gets[a].failed # "insert"
      /\ store.gets[b].failed # "insert"

\* what the unique constraint does give: no key has two rows
OneRowPerKey ==
  \A r, q \in store.rows : r.idempotencyKey = q.idempotencyKey => r = q

====
